---------------------------- MODULE Spec2Model ----------------------------
(***************************************************************************)
(* A model of the line-oriented TCP lookup service: the search algorithms  *)
(* of search.py, the SearchEngine of search_engine.py and the session      *)
(* handler of server.py.                                                   *)
(*                                                                         *)
(* Bytes and code points are natural numbers (LF = 10, CR = 13, ...).  A   *)
(* byte string and a Python str are sequences of them.  The alphabets of   *)
(* the model are ASCII, where UTF-8 decoding and encoding map every byte   *)
(* to the code point of the same value.                                    *)
(*                                                                         *)
(* The outcome of a call is a string: "TRUE" or "FALSE" for a returned     *)
(* bool, "None" for a call that returns nothing, and the name of the       *)
(* exception class for a call that raises.                                 *)
(***************************************************************************)
EXTENDS Integers, Sequences, FiniteSets, TLC

VARIABLES
    file,       \* the reference file on disk: [present, data]
    eng,        \* the SearchEngine object: [made, reread, algo, cache]
    last,       \* the last completed engine call: [op, q, res]
    cacheSrc,   \* history: the file data the stored cache was built from
    pc,         \* per thread: position inside exists()/warmup()
    tq,         \* per thread: the query of the running exists()
    tret,       \* per thread: who called the running warmup()
    tsrc,       \* per thread: the file data seen when the build opened it
    tpos,       \* per thread: number of lines the build has read
    tacc,       \* per thread: the local `lines` of the running build
    nlazy,      \* history: caches stored by a warmup that exists() started
    stop,       \* server._stop_event
    cst,        \* per connection: position inside _handle_client
    buf,        \* per connection: the local `buf`
    out,        \* per connection: the lines sent so far
    rx,         \* per connection, history: all bytes recv() returned
    nproc,      \* per connection, history: lines taken out of buf so far
    endc,       \* per connection, history: how the session ended
    nrecv,      \* history: recv() calls that returned data, all connections
    tmo,        \* history: for each counted recv() timeout, nrecv at that time
    srv,        \* the server: [pos] of start(), its listening [sock], whether [tls] is on
    proc,       \* the process of main(): [pos], the config file, app_cfg, exit [status], [msg]
    nstop,      \* history: calls of stop() that have returned
    ndisp,      \* history: threads start() has started after a stop() had returned
    grepOK      \* whether the grep executable can be run

vars == << file, eng, last, cacheSrc, pc, tq, tret, tsrc, tpos, tacc,
           nlazy, stop, cst, buf, out, rx, nproc, endc, nrecv, tmo, srv, proc,
           nstop, ndisp, grepOK >>

engVars  == << file, grepOK, eng, last, cacheSrc >>
thrVars  == << pc, tq, tret, tsrc, tpos, tacc, nlazy >>
sessVars == << stop, cst, buf, out, rx, nproc, endc, nrecv, tmo, srv >>
mainVars == << proc, nstop, ndisp >>

----------------------------------------------------------------------------
(* Bytes                                                                   *)

NUL == 0
LF == 10
CR == 13
ByteA == 97

\* bounds of the model
MaxFileLen == 2
MaxQueryLen == 1
NThreads == 2
NConns == 2
MaxRecv == 2
MaxIdle == 2
MaxStop == 2
MaxCfgLines == 2
MaxScanFileLen == 4
MaxScanQueryLen == 2

Min(S) == CHOOSE x \in S : \A y \in S : x <= y

\* all sequences over alphabet A of length at most n
BSeq(A, n) == UNION { [1..k -> A] : k \in 0..n }

B2O(b) == IF b THEN "TRUE" ELSE "FALSE"

Range(s) == { s[i] : i \in 1..Len(s) }

\* str.rstrip(chars) / bytes.rstrip(chars): drop the longest suffix made of chars
RStrip(s, chars) ==
    LET n == CHOOSE i \in 0..Len(s) :
                 /\ i = 0 \/ s[i] \notin chars
                 /\ \A j \in (i + 1)..Len(s) : s[j] \in chars
    IN  SubSeq(s, 1, n)

\* Python's str "<": by code point, a proper prefix is smaller
LexLess(a, b) ==
    \E i \in 1..(Min({Len(a), Len(b)}) + 1) :
        /\ \A j \in 1..(i - 1) : a[j] = b[j]
        /\ \/ i > Len(a) /\ i <= Len(b)
           \/ i <= Len(a) /\ i <= Len(b) /\ a[i] < b[i]

\* bytes.split(b"\n", 1) on a buffer that holds "\n": << before, after >>
HasLF(b) == \E k \in 1..Len(b) : b[k] = LF
SplitFirstLF(b) ==
    LET i == CHOOSE k \in 1..Len(b) : b[k] = LF /\ \A j \in 1..(k - 1) : b[j] # LF
    IN  << SubSeq(b, 1, i - 1), SubSeq(b, i + 1, Len(b)) >>

----------------------------------------------------------------------------
(* Reading the file in text mode: open("r", newline="") iterates lines in  *)
(* universal-newlines mode, the line ends "\n", "\r" and "\r\n" all end a  *)
(* line and are returned untranslated.                                     *)

FirstLineLen(s) ==
    LET brk == { i \in 1..Len(s) : s[i] \in {LF, CR} }
    IN  IF brk = {} THEN Len(s)
        ELSE LET i == Min(brk)
             IN  IF s[i] = CR /\ i < Len(s) /\ s[i + 1] = LF THEN i + 1 ELSE i

RECURSIVE TextLines(_)
TextLines(s) ==
    IF s = << >> THEN << >>
    ELSE LET n == FirstLineLen(s)
         IN  << SubSeq(s, 1, n) >> \o TextLines(SubSeq(s, n + 1, Len(s)))

\* line.rstrip("\r\n")
StripLine(line) == RStrip(line, {CR, LF})

StrippedLines(data) ==
    LET ls == TextLines(data) IN [ i \in 1..Len(ls) |-> StripLine(ls[i]) ]

----------------------------------------------------------------------------
(* search.py                                                               *)

\* search_linear_scan(file_path, query)
search_linear_scan(f, query) ==
    IF ~f.present THEN "SearchError"
    ELSE LET ls == StrippedLines(f.data)
         IN  B2O(\E i \in 1..Len(ls) : ls[i] = query)

\* The cache of an engine: None, a set of lines or a sorted list of lines.
\* A builder that raises returns a record whose kind is the exception.
NoCache == [kind |-> "none", set |-> {}, list |-> << >>]
SetCacheOf(S) == [kind |-> "set", set |-> S, list |-> << >>]
ListCacheOf(l) == [kind |-> "list", set |-> {}, list |-> l]
BuildRaised == [kind |-> "SearchError", set |-> {}, list |-> << >>]

\* list.sort() on a list of str
RECURSIVE SortLines(_)
InsertLine(x, sorted) ==
    LET n == Cardinality({ i \in 1..Len(sorted) : ~LexLess(x, sorted[i]) })
    IN  SubSeq(sorted, 1, n) \o << x >> \o SubSeq(sorted, n + 1, Len(sorted))
SortLines(l) ==
    IF l = << >> THEN << >> ELSE InsertLine(l[Len(l)], SortLines(SubSeq(l, 1, Len(l) - 1)))

\* build_set_cache(file_path)
build_set_cache(f) ==
    IF ~f.present THEN BuildRaised ELSE SetCacheOf(Range(StrippedLines(f.data)))

\* search_set_cache(cache, query)
search_set_cache(cache, query) == query \in cache

\* (a variant without "lines.sort()", to test the sensitivity of the
\* properties)
BuildUnsortedList(f) ==
    IF ~f.present THEN BuildRaised ELSE ListCacheOf(StrippedLines(f.data))

\* build_sorted_list(file_path)
build_sorted_list(f) ==
    IF ~f.present THEN BuildRaised ELSE ListCacheOf(SortLines(StrippedLines(f.data)))

\* bisect.bisect_left(a, x): lo and hi are 0-based
RECURSIVE BisectLoop(_, _, _, _)
BisectLoop(a, x, lo, hi) ==
    IF lo < hi
    THEN LET mid == (lo + hi) \div 2
         IN  IF LexLess(a[mid + 1], x) THEN BisectLoop(a, x, mid + 1, hi)
             ELSE BisectLoop(a, x, lo, mid)
    ELSE lo
bisect_left(a, x) == BisectLoop(a, x, 0, Len(a))

\* search_sorted_bisect(sorted_lines, query)
search_sorted_bisect(sorted_lines, query) ==
    LET idx == bisect_left(sorted_lines, query)
    IN  idx < Len(sorted_lines) /\ sorted_lines[idx + 1] = query

\* mmap.find(q, start): the lowest 0-based offset >= start of q in mm, or -1
MmFind(mm, q, start) ==
    LET hits == { p \in start..(Len(mm) - Len(q)) : SubSeq(mm, p + 1, p + Len(q)) = q }
    IN  IF hits = {} THEN -1 ELSE Min(hits)

\* (a variant that goes on after the end of a rejected occurrence, to test
\* the sensitivity of the properties)
RECURSIVE MmapLoopSkipsMatch(_, _, _)
MmapLoopSkipsMatch(mm, q, start) ==
    LET n == Len(mm)
        pos == MmFind(mm, q, start)
        before_ok == (pos = 0) \/ (mm[pos] = LF)
        after_pos == pos + Len(q)
        after_ok ==
            IF after_pos = n THEN TRUE
            ELSE IF mm[after_pos + 1] = LF THEN TRUE
            ELSE IF mm[after_pos + 1] = CR
                 THEN IF after_pos + 1 = n THEN TRUE ELSE mm[after_pos + 2] = LF
            ELSE FALSE
    IN  IF pos = -1 THEN FALSE
        ELSE IF before_ok /\ after_ok THEN TRUE
        ELSE MmapLoopSkipsMatch(mm, q, pos + Len(q))

\* the while-loop of search_mmap_scan; mm[i + 1] is the byte at offset i
RECURSIVE MmapLoop(_, _, _)
MmapLoop(mm, q, start) ==
    LET n == Len(mm)
        pos == MmFind(mm, q, start)
        before_ok == (pos = 0) \/ (mm[pos] = LF)
        after_pos == pos + Len(q)
        after_ok ==
            IF after_pos = n THEN TRUE
            ELSE IF mm[after_pos + 1] = LF THEN TRUE
            ELSE IF mm[after_pos + 1] = CR
                 THEN IF after_pos + 1 = n THEN TRUE ELSE mm[after_pos + 2] = LF
            ELSE FALSE
    IN  IF pos = -1 THEN FALSE
        ELSE IF before_ok /\ after_ok THEN TRUE
        ELSE MmapLoop(mm, q, pos + 1)

\* (a variant without "if not q: return False", to test the sensitivity of
\* the properties)
MmapScanAnyQuery(f, query) ==
    IF ~f.present THEN "SearchError"
    ELSE IF f.data = << >> THEN "FALSE"
    ELSE B2O(MmapLoop(f.data, query, 0))

\* search_mmap_scan(file_path, query)
search_mmap_scan(f, query) ==
    IF query = << >> THEN "FALSE"
    ELSE IF ~f.present THEN "SearchError"
    ELSE IF f.data = << >> THEN "FALSE"
    ELSE B2O(MmapLoop(f.data, query, 0))

\* all pieces of s between "\n" bytes
RECURSIVE SplitLF(_)
SplitLF(s) ==
    IF ~HasLF(s) THEN << s >>
    ELSE LET p == SplitFirstLF(s) IN << p[1] >> \o SplitLF(p[2])

\* The exit status of "grep -F -x -- query file": grep reads the lines that
\* "\n" ends (a last line need not end in one), takes every "\n"-separated
\* part of the pattern argument as a pattern, and exits 0 when a line equals
\* a pattern, 1 when none does, 2 when it cannot read the file.
GrepLines(data) ==
    LET ps == SplitLF(data)
    IN  IF ps[Len(ps)] = << >> THEN SubSeq(ps, 1, Len(ps) - 1) ELSE ps
GrepStatus(f, query) ==
    IF ~f.present THEN 2
    ELSE IF Range(GrepLines(f.data)) \cap Range(SplitLF(query)) # {} THEN 0
    ELSE 1

\* search_grep_fx(file_path, query); subprocess.run raises ValueError for an
\* argument with an embedded null byte, and FileNotFoundError when the
\* executable is missing
search_grep_fx(f, query, grepInstalled) ==
    IF NUL \in Range(query) THEN "ValueError"
    ELSE IF ~grepInstalled THEN "SearchError"
    ELSE B2O(GrepStatus(f, query) = 0)

----------------------------------------------------------------------------
(* search_engine.py                                                        *)

CACHED_ALGOS == {"set_cache", "sorted_bisect"}
REREAD_ALGOS == {"linear_scan", "mmap_scan", "grep_fx"}
ALL_ALGOS == CACHED_ALGOS \cup REREAD_ALGOS

\* a name that is no algorithm, for search_algo values outside ALL_ALGOS
AlgoNames == ALL_ALGOS \cup {"bogus"}

\* the dataclass SearchEngine(file_path, reread_on_query, search_algo, _cache)
NewEngine(reread, algo) ==
    [made |-> "ok", reread |-> reread, algo |-> algo, cache |-> NoCache]
NoEngine == [made |-> "no", reread |-> TRUE, algo |-> "linear_scan", cache |-> NoCache]

\* "except SearchError as exc: raise EngineError(str(exc)) from exc"
WrapSearchError(o) == IF o = "SearchError" THEN "EngineError" ELSE o

\* (a variant without the Reread check, to test the sensitivity of the properties)
ValidateNoRereadCheck(e) ==
    IF e.algo \notin ALL_ALGOS THEN "EngineError" ELSE "None"

\* SearchEngine._validate_compatibility: "None" or the exception raised
_validate_compatibility(e) ==
    IF e.algo \notin ALL_ALGOS THEN "EngineError"
    ELSE IF e.reread /\ e.algo \in CACHED_ALGOS THEN "EngineError"
    ELSE "None"

\* SearchEngine.from_config: the engine returned, or the exception raised
from_config(reread, algo) ==
    LET engine == NewEngine(reread, algo)
        v == _validate_compatibility(engine)
    IN  IF v = "None" THEN [eng |-> engine, res |-> "None"]
        ELSE [eng |-> [engine EXCEPT !.made = "failed"], res |-> v]

\* the builder warmup() calls for a cache-backed algorithm
BuildFor(algo, f) ==
    IF algo = "set_cache" THEN build_set_cache(f) ELSE build_sorted_list(f)

\* (variants to test the sensitivity of the properties: a warmup without the
\* compatibility check, and one that leaves a cache it does not need)
WarmupUnchecked(e, f) ==
    IF e.reread THEN [eng |-> [e EXCEPT !.cache = NoCache], res |-> "None"]
    ELSE IF e.algo \in CACHED_ALGOS
         THEN LET c == BuildFor(e.algo, f)
              IN  IF c.kind = "SearchError" THEN [eng |-> e, res |-> "EngineError"]
                  ELSE [eng |-> [e EXCEPT !.cache = c], res |-> "None"]
    ELSE [eng |-> [e EXCEPT !.cache = NoCache], res |-> "None"]
WarmupKeepsStale(e, f) ==
    IF _validate_compatibility(e) # "None" THEN [eng |-> e, res |-> "EngineError"]
    ELSE IF e.reread THEN [eng |-> e, res |-> "None"]
    ELSE IF e.algo \in CACHED_ALGOS
         THEN LET c == BuildFor(e.algo, f)
              IN  IF c.kind = "SearchError" THEN [eng |-> e, res |-> "EngineError"]
                  ELSE [eng |-> [e EXCEPT !.cache = c], res |-> "None"]
    ELSE [eng |-> e, res |-> "None"]

\* (more variants: a warmup that drops the cache before it builds, one that
\* stores an empty index when the build fails, and one that builds the set
\* for every algorithm of Cached mode)
WarmupClearsOnFailure(e, f) ==
    IF _validate_compatibility(e) # "None" THEN [eng |-> e, res |-> "EngineError"]
    ELSE IF e.reread THEN [eng |-> [e EXCEPT !.cache = NoCache], res |-> "None"]
    ELSE IF e.algo \in CACHED_ALGOS
         THEN LET c == BuildFor(e.algo, f)
              IN  IF c.kind = "SearchError"
                  THEN [eng |-> [e EXCEPT !.cache = NoCache], res |-> "EngineError"]
                  ELSE [eng |-> [e EXCEPT !.cache = c], res |-> "None"]
    ELSE [eng |-> [e EXCEPT !.cache = NoCache], res |-> "None"]
WarmupEmptyOnFailure(e, f) ==
    IF _validate_compatibility(e) # "None" THEN [eng |-> e, res |-> "EngineError"]
    ELSE IF e.reread THEN [eng |-> [e EXCEPT !.cache = NoCache], res |-> "None"]
    ELSE IF e.algo \in CACHED_ALGOS
         THEN LET c == BuildFor(e.algo, f)
              IN  IF c.kind = "SearchError"
                  THEN [eng |-> [e EXCEPT !.cache =
                                    IF e.algo = "set_cache" THEN SetCacheOf({})
                                    ELSE ListCacheOf(<< >>)],
                        res |-> "EngineError"]
                  ELSE [eng |-> [e EXCEPT !.cache = c], res |-> "None"]
    ELSE [eng |-> [e EXCEPT !.cache = NoCache], res |-> "None"]
WarmupBuildsForAll(e, f) ==
    IF _validate_compatibility(e) # "None" THEN [eng |-> e, res |-> "EngineError"]
    ELSE IF e.reread THEN [eng |-> [e EXCEPT !.cache = NoCache], res |-> "None"]
    ELSE LET c == IF e.algo = "sorted_bisect" THEN build_sorted_list(f)
                  ELSE build_set_cache(f)
         IN  IF c.kind = "SearchError" THEN [eng |-> e, res |-> "EngineError"]
             ELSE [eng |-> [e EXCEPT !.cache = c], res |-> "None"]

\* SearchEngine.warmup: the engine afterwards and the outcome
warmup(e, f) ==
    IF _validate_compatibility(e) # "None" THEN [eng |-> e, res |-> "EngineError"]
    ELSE IF e.reread THEN [eng |-> [e EXCEPT !.cache = NoCache], res |-> "None"]
    ELSE IF e.algo \in CACHED_ALGOS
         THEN LET c == BuildFor(e.algo, f)
              IN  IF c.kind = "SearchError" THEN [eng |-> e, res |-> "EngineError"]
                  ELSE [eng |-> [e EXCEPT !.cache = c], res |-> "None"]
    ELSE [eng |-> [e EXCEPT !.cache = NoCache], res |-> "None"]

\* the matcher of a reread algorithm, as exists() calls it
RunMatcher(algo, f, query, grepInstalled) ==
    WrapSearchError(
        IF algo = "linear_scan" THEN search_linear_scan(f, query)
        ELSE IF algo = "mmap_scan" THEN search_mmap_scan(f, query)
        ELSE search_grep_fx(f, query, grepInstalled))

\* the cache lookup at the end of exists()
Lookup(e, query) ==
    IF e.algo = "set_cache"
    THEN IF e.cache.kind # "set" THEN "AssertionError"
         ELSE B2O(search_set_cache(e.cache.set, query))
    ELSE IF e.algo = "sorted_bisect"
    THEN IF e.cache.kind # "list" THEN "AssertionError"
         ELSE B2O(search_sorted_bisect(e.cache.list, query))
    ELSE "EngineError"

\* (a variant that builds at every call, to test the sensitivity of the
\* properties)
NeedsWarmupAlways(e) == TRUE

\* whether exists() takes the lazy-warmup branch
NeedsWarmup(e) == e.cache.kind = "none"

\* SearchEngine.exists: the engine afterwards and the outcome
exists(e, f, query, grepInstalled) ==
    IF _validate_compatibility(e) # "None" THEN [eng |-> e, res |-> "EngineError"]
    ELSE IF e.reread
    THEN IF e.algo \in REREAD_ALGOS
         THEN [eng |-> e, res |-> RunMatcher(e.algo, f, query, grepInstalled)]
         ELSE [eng |-> e, res |-> "EngineError"]
    ELSE IF e.algo \in REREAD_ALGOS
    THEN [eng |-> e, res |-> RunMatcher(e.algo, f, query, grepInstalled)]
    ELSE LET w == IF NeedsWarmup(e) THEN warmup(e, f) ELSE [eng |-> e, res |-> "None"]
         IN  IF w.res # "None" THEN w
             ELSE [eng |-> w.eng, res |-> Lookup(w.eng, query)]

----------------------------------------------------------------------------
(* config.py.  A config file is a sequence of lines (raw.splitlines()) and *)
(* a line a sequence of words: "sp" is a run of white space, "#" and "="   *)
(* are these characters, any other word is a run of other characters.      *)

Max(S) == CHOOSE x \in S : \A y \in S : x >= y

\* str.strip(): without the white space at both ends
Strip(line) ==
    LET idx == { i \in 1..Len(line) : line[i] # "sp" }
    IN  IF idx = {} THEN << >> ELSE SubSeq(line, Min(idx), Max(idx))

\* str.lower() of a word
Lower(w) == IF w = "True" THEN "true" ELSE IF w = "False" THEN "false" ELSE w

\* _parse_bool(value): "TRUE", "FALSE" or the exception raised
_parse_bool(value) ==
    LET s == Strip(value)
        v == [ i \in 1..Len(s) |-> Lower(s[i]) ]
    IN  IF v \in { <<w>> : w \in {"true", "1", "yes", "y", "on"} } THEN "TRUE"
        ELSE IF v \in { <<w>> : w \in {"false", "0", "no", "n", "off"} } THEN "FALSE"
        ELSE "ConfigError"

\* stripped.startswith(key + "=")
StartsWithKey(stripped, key) ==
    Len(stripped) >= 2 /\ stripped[1] = key /\ stripped[2] = "="

\* stripped[len(key + "="):].strip()
ValueOf(stripped) == Strip(SubSeq(stripped, 3, Len(stripped)))

\* (a variant whose defaults are the Cached mode and set_cache, to test the
\* sensitivity of the properties)
CfgLocalsCached ==
    [ err |-> "None", linuxpath |-> << >>, reread_on_query |-> FALSE,
      search_algo |-> << "set_cache" >>, ssl_enabled |-> FALSE,
      ssl_certfile |-> << >>, ssl_keyfile |-> << >>, ssl_verify |-> TRUE,
      ssl_cafile |-> << >> ]

\* the locals of load_config before its loop; << >> stands for None, and err
\* is the exception raised so far
CfgLocals ==
    [ err |-> "None", linuxpath |-> << >>, reread_on_query |-> TRUE,
      search_algo |-> << "linear_scan" >>, ssl_enabled |-> FALSE,
      ssl_certfile |-> << >>, ssl_keyfile |-> << >>, ssl_verify |-> TRUE,
      ssl_cafile |-> << >> ]

CfgRaise(st) == [st EXCEPT !.err = "ConfigError"]

\* one pass of "for line in raw.splitlines():"
ParseLine(st, line) ==
    LET stripped == Strip(line)
        value == ValueOf(stripped)
    IN  IF stripped = << >> \/ stripped[1] = "#" THEN st
        ELSE IF StartsWithKey(stripped, "linuxpath")
        THEN IF value = << >> THEN CfgRaise(st) ELSE [st EXCEPT !.linuxpath = value]
        ELSE IF StartsWithKey(stripped, "reread_on_query")
        THEN IF _parse_bool(value) = "ConfigError" THEN CfgRaise(st)
             ELSE [st EXCEPT !.reread_on_query = (_parse_bool(value) = "TRUE")]
        ELSE IF StartsWithKey(stripped, "search_algo")
        THEN IF value = << >> THEN CfgRaise(st) ELSE [st EXCEPT !.search_algo = value]
        ELSE IF StartsWithKey(stripped, "ssl_enabled")
        THEN IF _parse_bool(value) = "ConfigError" THEN CfgRaise(st)
             ELSE [st EXCEPT !.ssl_enabled = (_parse_bool(value) = "TRUE")]
        ELSE IF StartsWithKey(stripped, "ssl_certfile")
        THEN [st EXCEPT !.ssl_certfile = value]
        ELSE IF StartsWithKey(stripped, "ssl_keyfile")
        THEN [st EXCEPT !.ssl_keyfile = value]
        ELSE IF StartsWithKey(stripped, "ssl_verify")
        THEN IF _parse_bool(value) = "ConfigError" THEN CfgRaise(st)
             ELSE [st EXCEPT !.ssl_verify = (_parse_bool(value) = "TRUE")]
        ELSE IF StartsWithKey(stripped, "ssl_cafile")
        THEN [st EXCEPT !.ssl_cafile = value]
        ELSE st

\* the loop of load_config, left at the first exception
RECURSIVE ParseLines(_, _)
ParseLines(st, lines) ==
    IF lines = << >> \/ st.err # "None" THEN st
    ELSE ParseLines(ParseLine(st, Head(lines)), Tail(lines))

\* "allowed" of load_config
allowed == {"linear_scan", "mmap_scan", "grep_fx", "set_cache", "sorted_bisect"}

\* the dataclass AppConfig, with its defaults
AppConfig ==
    [ linuxpath |-> << >>, reread_on_query |-> TRUE, search_algo |-> "linear_scan",
      ssl_enabled |-> FALSE, ssl_certfile |-> << >>, ssl_keyfile |-> << >>,
      ssl_verify |-> TRUE, ssl_cafile |-> << >> ]

\* a config file: missing, or its lines
CfgFile(lines) == [present |-> TRUE, lines |-> lines]
NoCfgFile == [present |-> FALSE, lines |-> << >>]

ConfigError == [res |-> "ConfigError", cfg |-> AppConfig]

\* load_config(config_path): the AppConfig returned, or the exception raised
load_config(c) ==
    IF ~c.present THEN ConfigError
    ELSE LET st == ParseLines(CfgLocals, c.lines)
         IN  IF st.err # "None" THEN ConfigError
             ELSE IF st.linuxpath = << >> THEN ConfigError
             ELSE IF st.search_algo \notin { <<a>> : a \in allowed } THEN ConfigError
             ELSE IF st.ssl_enabled /\ (st.ssl_certfile = << >> \/ st.ssl_keyfile = << >>)
             THEN ConfigError
             ELSE IF st.ssl_enabled /\ st.ssl_verify /\ st.ssl_cafile = << >>
             THEN ConfigError
             ELSE [ res |-> "None",
                    cfg |-> [ linuxpath |-> st.linuxpath,
                              reread_on_query |-> st.reread_on_query,
                              search_algo |-> st.search_algo[1],
                              ssl_enabled |-> st.ssl_enabled,
                              ssl_certfile |-> st.ssl_certfile,
                              ssl_keyfile |-> st.ssl_keyfile,
                              ssl_verify |-> st.ssl_verify,
                              ssl_cafile |-> st.ssl_cafile ] ]

----------------------------------------------------------------------------
(* The reference file and the queries of the model                         *)

FileAlphabet == {LF, CR, ByteA}
QueryAlphabet == {NUL, CR, ByteA}
Files == BSeq(FileAlphabet, MaxFileLen)
Queries == BSeq(QueryAlphabet, MaxQueryLen)

Present(d) == [present |-> TRUE, data |-> d]
Absent == [present |-> FALSE, data |-> << >>]
FileStates == { Present(d) : d \in Files } \cup {Absent}

Threads == 1..NThreads
Conns == 1..NConns

NoCall == [op |-> "none", q |-> << >>, res |-> "None"]

\* TCPStringLookupServer before start(): no listening socket
NoServer == [pos |-> "init", sock |-> "none", tls |-> FALSE]
\* a server inside its accept loop
Serving == [pos |-> "accept", sock |-> "open", tls |-> FALSE]

\* no process of main(): the server and the engine are used as a library
NoProc ==
    [pos |-> "none", cfg |-> NoCfgFile, app |-> AppConfig, status |-> -1, msg |-> "none"]

\* the variables of the engine threads and of the sessions at rest
ThreadsAtRest ==
    /\ pc = [t \in Threads |-> "idle"]
    /\ tq = [t \in Threads |-> << >>]
    /\ tret = [t \in Threads |-> "none"]
    /\ tsrc = [t \in Threads |-> << >>]
    /\ tpos = [t \in Threads |-> 0]
    /\ tacc = [t \in Threads |-> << >>]
    /\ nlazy = 0
SessionsAtRest ==
    /\ stop = FALSE
    /\ cst = [c \in Conns |-> "none"]
    /\ buf = [c \in Conns |-> << >>]
    /\ out = [c \in Conns |-> << >>]
    /\ rx = [c \in Conns |-> << >>]
    /\ nproc = [c \in Conns |-> 0]
    /\ endc = [c \in Conns |-> "none"]
    /\ nrecv = 0
    /\ tmo = << >>
    /\ srv = NoServer
    /\ proc = NoProc
    /\ nstop = 0
    /\ ndisp = 0

----------------------------------------------------------------------------
(* One caller of the engine: from_config, warmup, exists, and the owner of *)
(* the reference file replacing or removing it between the calls.          *)

\* (a missing grep executable matters to grep_fx alone: no other engine is
\* created in a system without it)
FromConfig(reread, algo) ==
    /\ eng.made = "no"
    /\ ~grepOK => algo = "grep_fx"
    /\ LET r == from_config(reread, algo)
       IN  /\ eng' = r.eng
           /\ last' = [op |-> "from_config", q |-> << >>, res |-> r.res]
    /\ UNCHANGED << file, grepOK, cacheSrc, thrVars, sessVars, mainVars >>

Warmup ==
    /\ eng.made = "ok"
    /\ LET r == warmup(eng, file)
       IN  /\ eng' = r.eng
           /\ last' = [op |-> "warmup", q |-> << >>, res |-> r.res]
           /\ cacheSrc' = IF r.eng.cache.kind = "none" THEN << >>
                          ELSE IF r.res = "None" THEN file.data ELSE cacheSrc
    /\ UNCHANGED << file, grepOK, thrVars, sessVars, mainVars >>

Exists(query) ==
    /\ eng.made = "ok"
    /\ LET r == exists(eng, file, query, grepOK)
       IN  /\ eng' = r.eng
           /\ last' = [op |-> "exists", q |-> query, res |-> r.res]
           /\ cacheSrc' = IF r.eng.cache # eng.cache THEN file.data ELSE cacheSrc
    /\ UNCHANGED << file, grepOK, thrVars, sessVars, mainVars >>

\* the file's owner writes new content; the last call is no longer the latest event
WriteFile(d) ==
    /\ file' = Present(d)
    /\ file' # file
    /\ last' = [last EXCEPT !.op = "write"]
    /\ UNCHANGED << grepOK, eng, cacheSrc, thrVars, sessVars, mainVars >>

RemoveFile ==
    /\ file.present
    /\ file' = Absent
    /\ last' = [last EXCEPT !.op = "write"]
    /\ UNCHANGED << grepOK, eng, cacheSrc, thrVars, sessVars, mainVars >>

InitEngine ==
    /\ file \in FileStates
    /\ grepOK \in BOOLEAN
    /\ eng = NoEngine
    /\ last = NoCall
    /\ cacheSrc = << >>
    /\ ThreadsAtRest
    /\ SessionsAtRest

NextEngine ==
    \/ \E r \in BOOLEAN, a \in AlgoNames : FromConfig(r, a)
    \/ Warmup
    \/ \E q \in Queries : Exists(q)
    \/ \E d \in Files : WriteFile(d)
    \/ RemoveFile

SpecEngine == InitEngine /\ [][NextEngine]_vars

----------------------------------------------------------------------------
(* The same caller, who also assigns the fields reread_on_query and        *)
(* search_algo of the engine (SearchEngine is a dataclass that is not      *)
(* frozen) between the calls.                                              *)

FieldFiles == { <<ByteA, LF>>, <<ByteA, LF, LF>> }
FieldQueries == { << >>, <<ByteA>> }

\* engine.reread_on_query = reread; engine.search_algo = algo
SetFields(reread, algo) ==
    /\ eng.made = "ok"
    /\ eng' = [eng EXCEPT !.reread = reread, !.algo = algo]
    /\ eng' # eng
    /\ last' = [op |-> "set", q |-> << >>, res |-> "None"]
    /\ UNCHANGED << file, grepOK, cacheSrc, thrVars, sessVars, mainVars >>

InitFields ==
    /\ file \in { Present(d) : d \in FieldFiles } \cup {Absent}
    /\ grepOK = TRUE
    /\ eng = NoEngine
    /\ last = NoCall
    /\ cacheSrc = << >>
    /\ ThreadsAtRest
    /\ SessionsAtRest

NextFields ==
    \/ \E r \in BOOLEAN, a \in AlgoNames : FromConfig(r, a)
    \/ \E r \in BOOLEAN, a \in AlgoNames : SetFields(r, a)
    \/ Warmup
    \/ \E q \in FieldQueries : Exists(q)
    \/ \E d \in FieldFiles : WriteFile(d)
    \/ RemoveFile

SpecFields == InitFields /\ [][NextFields]_vars

----------------------------------------------------------------------------
(* Several threads (the sessions of the server) calling exists() and       *)
(* warmup() on one engine.  A call of a reread matcher is one step.  The   *)
(* cache build of warmup() is a step per line read: it opens the file,     *)
(* adds the lines one by one to its local `lines`, and the assignment to   *)
(* self._cache is the step after the last line.  A build reads the content *)
(* the file had when it was opened.  `last` is the call that returned      *)
(* last.                                                                   *)

RaceFiles == { <<ByteA, LF>>, <<ByteA, LF, LF>> }
RaceQueries == { << >>, <<ByteA>> }

\* how a call of thread t ends with outcome o
Return(t, op, o) ==
    /\ pc' = [pc EXCEPT ![t] = "idle"]
    /\ last' = [op |-> op, q |-> tq[t], res |-> o]
    /\ tq' = [tq EXCEPT ![t] = << >>]
    /\ tret' = [tret EXCEPT ![t] = "none"]
    /\ tsrc' = [tsrc EXCEPT ![t] = << >>]
    /\ tpos' = [tpos EXCEPT ![t] = 0]
    /\ tacc' = [tacc EXCEPT ![t] = << >>]

\* exists(query) called by thread t, up to "if self._cache is None"
CallExists(t, query) ==
    /\ pc[t] = "idle"
    /\ eng.made = "ok"
    /\ IF _validate_compatibility(eng) # "None"
       THEN /\ last' = [op |-> "exists", q |-> query, res |-> "EngineError"]
            /\ UNCHANGED << pc, tq >>
       ELSE IF eng.reread \/ eng.algo \in REREAD_ALGOS
       THEN /\ last' = [op |-> "exists", q |-> query,
                        res |-> exists(eng, file, query, grepOK).res]
            /\ UNCHANGED << pc, tq >>
       ELSE /\ pc' = [pc EXCEPT ![t] = "ex_check"]
            /\ tq' = [tq EXCEPT ![t] = query]
            /\ UNCHANGED last
    /\ UNCHANGED << file, grepOK, eng, cacheSrc, tret, tsrc, tpos, tacc, nlazy, sessVars, mainVars >>

\* "if self._cache is None: self.warmup()"
ExCheck(t) ==
    /\ pc[t] = "ex_check"
    /\ IF NeedsWarmup(eng)
       THEN /\ pc' = [pc EXCEPT ![t] = "wu_enter"]
            /\ tret' = [tret EXCEPT ![t] = "exists"]
       ELSE /\ pc' = [pc EXCEPT ![t] = "ex_lookup"]
            /\ UNCHANGED tret
    /\ UNCHANGED << engVars, tq, tsrc, tpos, tacc, nlazy, sessVars, mainVars >>

\* warmup() called by thread t itself
CallWarmup(t) ==
    /\ pc[t] = "idle"
    /\ eng.made = "ok"
    /\ pc' = [pc EXCEPT ![t] = "wu_enter"]
    /\ tret' = [tret EXCEPT ![t] = "warmup"]
    /\ UNCHANGED << engVars, tq, tsrc, tpos, tacc, nlazy, sessVars, mainVars >>

\* warmup() from its first line to the open() of the builder
WuEnter(t) ==
    /\ pc[t] = "wu_enter"
    /\ IF _validate_compatibility(eng) # "None"
       THEN Return(t, tret[t], "EngineError") /\ UNCHANGED << eng, cacheSrc >>
       ELSE IF eng.reread \/ eng.algo \notin CACHED_ALGOS
       THEN /\ eng' = [eng EXCEPT !.cache = NoCache]
            /\ cacheSrc' = << >>
            /\ Return(t, tret[t], "None")
       ELSE IF ~file.present
       THEN Return(t, tret[t], "EngineError") /\ UNCHANGED << eng, cacheSrc >>
       ELSE /\ pc' = [pc EXCEPT ![t] = "wu_read"]
            /\ tsrc' = [tsrc EXCEPT ![t] = file.data]
            /\ tpos' = [tpos EXCEPT ![t] = 0]
            /\ tacc' = [tacc EXCEPT ![t] = << >>]
            /\ UNCHANGED << eng, cacheSrc, last, tq, tret >>
    /\ UNCHANGED << file, grepOK, nlazy, sessVars, mainVars >>

\* (a variant that builds in self._cache itself, to test the sensitivity
\* of the properties)
WuReadInPlace(t) ==
    /\ pc[t] = "wu_read"
    /\ tpos[t] < Len(TextLines(tsrc[t]))
    /\ tacc' = [tacc EXCEPT ![t] = Append(@, StripLine(TextLines(tsrc[t])[tpos[t] + 1]))]
    /\ tpos' = [tpos EXCEPT ![t] = @ + 1]
    /\ eng' = [eng EXCEPT !.cache =
                  IF eng.algo = "set_cache" THEN SetCacheOf(Range(tacc'[t]))
                  ELSE ListCacheOf(tacc'[t])]
    /\ cacheSrc' = tsrc[t]
    /\ UNCHANGED << file, grepOK, last, pc, tq, tret, tsrc, nlazy, sessVars, mainVars >>

\* "for line in f: lines.add(line.rstrip("\r\n"))", one line
WuRead(t) ==
    /\ pc[t] = "wu_read"
    /\ tpos[t] < Len(TextLines(tsrc[t]))
    /\ tacc' = [tacc EXCEPT ![t] = Append(@, StripLine(TextLines(tsrc[t])[tpos[t] + 1]))]
    /\ tpos' = [tpos EXCEPT ![t] = @ + 1]
    /\ UNCHANGED << engVars, pc, tq, tret, tsrc, nlazy, sessVars, mainVars >>

\* the cache a finished build returns: the set, or the list after lines.sort()
Built(algo, lines) ==
    IF algo = "set_cache" THEN SetCacheOf(Range(lines)) ELSE ListCacheOf(SortLines(lines))

\* (a variant that returns the lines read so far, to test the sensitivity of
\* the properties)
WuFailKeepsLines(t) ==
    /\ pc[t] = "wu_read"
    /\ eng' = [eng EXCEPT !.cache = Built(eng.algo, tacc[t])]
    /\ cacheSrc' = tsrc[t]
    /\ Return(t, tret[t], "None")
    /\ UNCHANGED << file, grepOK, nlazy, sessVars, mainVars >>

\* a read of the build raises OSError: the builder raises SearchError, its
\* `lines` is dropped, and warmup() raises EngineError
WuFail(t) ==
    /\ pc[t] = "wu_read"
    /\ Return(t, tret[t], "EngineError")
    /\ UNCHANGED << file, grepOK, eng, cacheSrc, nlazy, sessVars, mainVars >>

\* the builder returns and warmup() assigns self._cache
WuStore(t) ==
    /\ pc[t] = "wu_read"
    /\ tpos[t] = Len(TextLines(tsrc[t]))
    /\ eng' = [eng EXCEPT !.cache = Built(eng.algo, tacc[t])]
    /\ cacheSrc' = tsrc[t]
    /\ nlazy' = IF tret[t] = "exists" THEN nlazy + 1 ELSE nlazy
    /\ IF tret[t] = "exists"
       THEN /\ pc' = [pc EXCEPT ![t] = "ex_lookup"]
            /\ tsrc' = [tsrc EXCEPT ![t] = << >>]
            /\ tpos' = [tpos EXCEPT ![t] = 0]
            /\ tacc' = [tacc EXCEPT ![t] = << >>]
            /\ UNCHANGED << tq, tret, last >>
       ELSE Return(t, "warmup", "None")
    /\ UNCHANGED << file, grepOK, sessVars, mainVars >>

\* the isinstance assertion and the lookup in self._cache
ExLookup(t) ==
    /\ pc[t] = "ex_lookup"
    /\ Return(t, "exists", Lookup(eng, tq[t]))
    /\ UNCHANGED << file, grepOK, eng, cacheSrc, nlazy, sessVars, mainVars >>

\* the file's owner replaces the file while the threads run
ReplaceFile(d) ==
    /\ file' = Present(d)
    /\ file' # file
    /\ UNCHANGED << grepOK, eng, last, cacheSrc, thrVars, sessVars, mainVars >>

InitRace ==
    /\ file \in { Present(d) : d \in RaceFiles } \cup {Absent}
    /\ grepOK = TRUE
    /\ \E a \in CACHED_ALGOS : eng = from_config(FALSE, a).eng
    /\ last = NoCall
    /\ cacheSrc = << >>
    /\ ThreadsAtRest
    /\ SessionsAtRest

NextRace ==
    \/ \E t \in Threads, q \in RaceQueries : CallExists(t, q)
    \/ \E t \in Threads : ExCheck(t)
    \/ \E t \in Threads : CallWarmup(t)
    \/ \E t \in Threads : WuEnter(t)
    \/ \E t \in Threads : WuRead(t)
    \/ \E t \in Threads : WuFail(t)
    \/ \E t \in Threads : WuStore(t)
    \/ \E t \in Threads : ExLookup(t)
    \/ \E d \in RaceFiles : ReplaceFile(d)

SpecRace == InitRace /\ [][NextRace]_vars

----------------------------------------------------------------------------
(* server.py: the sessions of TCPStringLookupServer._handle_client.  Each  *)
(* connection has its own thread; a step is one pass of the outer loop up  *)
(* to recv(), one outcome of recv(), or one pass of the inner loop (one    *)
(* line taken out of buf and answered).                                    *)

MAX_PAYLOAD_BYTES == 1024

\* bytes.decode("utf-8", errors="replace"): an ASCII byte is its code point,
\* a byte that starts no valid sequence becomes U+FFFD
Decode(b) == [ i \in 1..Len(b) |-> IF b[i] < 128 THEN b[i] ELSE 65533 ]

\* "raw_line.rstrip(b"\r").rstrip(b"\x00")"
TrimLine(raw_line) == RStrip(RStrip(raw_line, {CR}), {NUL})

\* the lines the session writes
DebugLine(query) == [line |-> "DEBUG", q |-> query, error |-> FALSE]
DebugTooLong == [line |-> "DEBUG", q |-> << >>, error |-> TRUE]
RESPONSE_EXISTS == [line |-> "STRING EXISTS", q |-> << >>, error |-> FALSE]
RESPONSE_NOT_FOUND == [line |-> "STRING NOT FOUND", q |-> << >>, error |-> FALSE]

\* what the clients of the model send in one recv(): a partial line, two
\* CRLF-ended lines, a line with an embedded NUL byte
Chunks == { <<ByteA>>, <<CR, LF, ByteA, CR, LF>>, <<ByteA, NUL, ByteA, LF>> }

\* (a variant without the finally clause, to test the sensitivity of the
\* properties: the handler is gone and the socket is still open)
EndSessionNoClose(c, why) ==
    /\ cst' = [cst EXCEPT ![c] = "returned"]
    /\ endc' = [endc EXCEPT ![c] = why]

\* the handler returns, its finally clause closes the socket
EndSession(c, why) ==
    /\ cst' = [cst EXCEPT ![c] = "closed"]
    /\ endc' = [endc EXCEPT ![c] = why]

\* "while not self._stop_event.is_set():"
LoopTop(c) ==
    /\ cst[c] = "top"
    /\ IF stop THEN EndSession(c, "stopped")
       ELSE cst' = [cst EXCEPT ![c] = "recv"] /\ UNCHANGED endc
    /\ UNCHANGED << engVars, thrVars, stop, buf, out, rx, nproc, nrecv, tmo, srv, mainVars >>

\* (a variant that forgets the partial line of the reads before, to test the
\* sensitivity of the properties)
RecvDataDropsPartial(c, chunk) ==
    /\ cst[c] = "recv"
    /\ nrecv < MaxRecv
    /\ nrecv' = nrecv + 1
    /\ buf' = [buf EXCEPT ![c] = chunk]
    /\ rx' = [rx EXCEPT ![c] = @ \o chunk]
    /\ cst' = [cst EXCEPT ![c] = IF HasLF(buf'[c]) THEN "lines" ELSE "top"]
    /\ UNCHANGED << engVars, thrVars, stop, out, nproc, endc, tmo, srv, mainVars >>

\* recv() returns data: "buf += chunk", then the inner loop if buf has "\n"
RecvData(c, chunk) ==
    /\ cst[c] = "recv"
    /\ nrecv < MaxRecv
    /\ nrecv' = nrecv + 1
    /\ buf' = [buf EXCEPT ![c] = @ \o chunk]
    /\ rx' = [rx EXCEPT ![c] = @ \o chunk]
    /\ cst' = [cst EXCEPT ![c] = IF HasLF(buf'[c]) THEN "lines" ELSE "top"]
    /\ UNCHANGED << engVars, thrVars, stop, out, nproc, endc, tmo, srv, mainVars >>

\* recv() raises socket.timeout: "continue"
RecvTimeout(c) ==
    /\ cst[c] = "recv"
    /\ cst' = [cst EXCEPT ![c] = "top"]
    /\ UNCHANGED << engVars, thrVars, stop, buf, out, rx, nproc, endc, nrecv, tmo, srv, mainVars >>

\* (a variant that takes the timeout for the end of the session, to test the
\* sensitivity of the properties)
IdleTimeoutCloses(c) ==
    /\ cst[c] = "recv"
    /\ Len(tmo) < MaxIdle
    /\ tmo' = Append(tmo, nrecv)
    /\ EndSession(c, "idle")
    /\ UNCHANGED << engVars, thrVars, stop, buf, out, rx, nproc, nrecv, srv, mainVars >>

\* recv() raises socket.timeout: "continue", written down in tmo
IdleTimeout(c) ==
    /\ cst[c] = "recv"
    /\ Len(tmo) < MaxIdle
    /\ tmo' = Append(tmo, nrecv)
    /\ cst' = [cst EXCEPT ![c] = "top"]
    /\ UNCHANGED << engVars, thrVars, stop, buf, out, rx, nproc, endc, nrecv, srv, mainVars >>

\* (a variant that answers the partial line left in buf when the client
\* closes, to test the sensitivity of the properties)
RecvEOFFlushesPartial(c) ==
    /\ cst[c] = "recv"
    /\ EndSession(c, "client_closed")
    /\ out' = [out EXCEPT ![c] =
                  IF buf[c] = << >> THEN @
                  ELSE @ \o << [line |-> "DEBUG", q |-> buf[c], error |-> FALSE],
                               [line |-> "STRING NOT FOUND", q |-> << >>, error |-> FALSE] >>]
    /\ nproc' = [nproc EXCEPT ![c] = IF buf[c] = << >> THEN @ ELSE @ + 1]
    /\ buf' = [buf EXCEPT ![c] = << >>]
    /\ UNCHANGED << engVars, thrVars, stop, rx, nrecv, tmo, srv, mainVars >>

\* recv() returns b"": "break"
RecvEOF(c) ==
    /\ cst[c] = "recv"
    /\ EndSession(c, "client_closed")
    /\ UNCHANGED << engVars, thrVars, stop, buf, out, rx, nproc, nrecv, tmo, srv, mainVars >>

\* recv() raises another OSError (a reset connection): it leaves the handler
RecvError(c) ==
    /\ cst[c] = "recv"
    /\ EndSession(c, "recv_error")
    /\ UNCHANGED << engVars, thrVars, stop, buf, out, rx, nproc, nrecv, tmo, srv, mainVars >>

\* (variants to test the sensitivity of the properties: one that lets
\* EngineError pass, one that takes the last complete line of buf first)
FoundOfUncaught(res) == res
TakeLastLine(b) ==
    LET j == CHOOSE k \in 1..Len(b) : b[k] = LF /\ \A m \in (k + 1)..Len(b) : b[m] # LF
        i == CHOOSE k \in 0..(j - 1) :
                 /\ k = 0 \/ b[k] = LF
                 /\ \A m \in (k + 1)..(j - 1) : b[m] # LF
    IN  << SubSeq(b, i + 1, j - 1), SubSeq(b, 1, i) \o SubSeq(b, j + 1, Len(b)) >>

\* the verdict of one query: exists() and "except EngineError: found = False";
\* another exception is not caught
FoundOf(res) == IF res = "EngineError" THEN "FALSE" ELSE res

\* "raw_line, buf = buf.split(b"\n", 1)"
TakeLine(b) == SplitFirstLF(b)

\* (variants to test the sensitivity of the properties: a cap that rejects
\* MAX_PAYLOAD_BYTES itself, and no cap)
TooLongAtCap(raw_line) == Len(raw_line) >= MAX_PAYLOAD_BYTES
TooLongNever(raw_line) == FALSE

\* "if len(raw_line) > MAX_PAYLOAD_BYTES:", on the trimmed line
TooLong(raw_line) == Len(raw_line) > MAX_PAYLOAD_BYTES

\* the two sendall() calls: sends = "ok", "fail1" (the first raises OSError)
\* or "fail2" (the second does); the lines that reached the connection
Sent(lines, sends) ==
    IF sends = "ok" THEN lines
    ELSE IF sends = "fail2" THEN << lines[1] >>
    ELSE << >>

\* one pass of "while b"\n" in buf:"
ProcessLine(c, sends) ==
    /\ cst[c] = "lines"
    /\ LET parts == TakeLine(buf[c])
           raw_line == TrimLine(parts[1])
           tooLong == TooLong(raw_line)
           query == Decode(raw_line)
           r == IF tooLong THEN [eng |-> eng, res |-> "FALSE"]
                ELSE exists(eng, file, query, grepOK)
           found == IF tooLong THEN "FALSE" ELSE FoundOf(r.res)
           lines == IF tooLong THEN << DebugTooLong, RESPONSE_NOT_FOUND >>
                    ELSE << DebugLine(query),
                            IF found = "TRUE" THEN RESPONSE_EXISTS ELSE RESPONSE_NOT_FOUND >>
       IN  /\ buf' = [buf EXCEPT ![c] = parts[2]]
           /\ nproc' = [nproc EXCEPT ![c] = @ + 1]
           /\ eng' = r.eng
           /\ cacheSrc' = IF r.eng.cache # eng.cache THEN file.data ELSE cacheSrc
           /\ IF found \notin {"TRUE", "FALSE"}
              THEN \* an exception that is no EngineError leaves the handler
                   /\ sends = "ok"
                   /\ EndSession(c, found)
                   /\ UNCHANGED out
              ELSE /\ out' = [out EXCEPT ![c] = @ \o Sent(lines, sends)]
                   /\ IF sends = "ok"
                      THEN /\ cst' = [cst EXCEPT ![c] =
                                         IF HasLF(parts[2]) THEN "lines" ELSE "top"]
                           /\ UNCHANGED endc
                      ELSE EndSession(c, "write_failed")
    /\ UNCHANGED << file, grepOK, last, thrVars, stop, rx, nrecv, tmo, srv, mainVars >>

\* server.stop(): sets the stop event and closes the listening socket
SetStop ==
    /\ ~stop
    /\ stop' = TRUE
    /\ srv' = [srv EXCEPT !.sock = IF @ = "none" THEN "none" ELSE "closed"]
    /\ UNCHANGED << engVars, thrVars, cst, buf, out, rx, nproc, endc, nrecv, tmo, mainVars >>

SessFiles == { Present(<<ByteA, LF>>), Absent }

\* the server was given an engine from_config made, warmed up (as main()
\* does in Cached mode) or not
InitSession ==
    /\ file \in SessFiles
    /\ grepOK = TRUE
    /\ \E r \in BOOLEAN, a \in ALL_ALGOS, warm \in BOOLEAN :
          /\ from_config(r, a).res = "None"
          /\ r \/ a \in CACHED_ALGOS
          /\ warm => ~r /\ warmup(from_config(r, a).eng, file).res = "None"
          /\ eng = IF warm THEN warmup(from_config(r, a).eng, file).eng
                   ELSE from_config(r, a).eng
    /\ cacheSrc = IF eng.cache.kind = "none" THEN << >> ELSE file.data
    /\ last = NoCall
    /\ ThreadsAtRest
    /\ stop = FALSE
    /\ cst = [c \in Conns |-> "top"]
    /\ buf = [c \in Conns |-> << >>]
    /\ out = [c \in Conns |-> << >>]
    /\ rx = [c \in Conns |-> << >>]
    /\ nproc = [c \in Conns |-> 0]
    /\ endc = [c \in Conns |-> "none"]
    /\ nrecv = 0
    /\ tmo = << >>
    /\ srv = Serving
    /\ proc = NoProc
    /\ nstop = 0
    /\ ndisp = 0

NextSession ==
    \/ \E c \in Conns : LoopTop(c)
    \/ \E c \in Conns, chunk \in Chunks : RecvData(c, chunk)
    \/ \E c \in Conns : RecvTimeout(c)
    \/ \E c \in Conns : RecvEOF(c)
    \/ \E c \in Conns : RecvError(c)
    \/ \E c \in Conns, sends \in {"ok", "fail1", "fail2"} : ProcessLine(c, sends)
    \/ SetStop

SpecSession == InitSession /\ [][NextSession]_vars

----------------------------------------------------------------------------
(* One session that receives lines around the cap of MAX_PAYLOAD_BYTES:    *)
(* lines of MAX_PAYLOAD_BYTES and of MAX_PAYLOAD_BYTES + 1 letters, a line *)
(* of MAX_PAYLOAD_BYTES letters that ends in "\r\n", and a short line.     *)

Letters(n) == [ i \in 1..n |-> ByteA ]
CapChunks ==
    { Letters(MAX_PAYLOAD_BYTES) \o <<LF>>,
      Letters(MAX_PAYLOAD_BYTES + 1) \o <<LF>>,
      Letters(MAX_PAYLOAD_BYTES) \o <<CR, LF>>,
      <<ByteA, LF>> }

\* the engine is a Reread linear_scan or a Cached set_cache that was not
\* warmed up (its first search builds the cache)
InitCap ==
    /\ InitSession
    /\ file = Present(<<ByteA, LF>>)
    /\ eng \in { from_config(TRUE, "linear_scan").eng, from_config(FALSE, "set_cache").eng }

NextCap ==
    \/ LoopTop(1)
    \/ \E chunk \in CapChunks : RecvData(1, chunk)
    \/ RecvEOF(1)
    \/ \E sends \in {"ok", "fail1", "fail2"} : ProcessLine(1, sends)

SpecCap == InitCap /\ [][NextCap]_vars

----------------------------------------------------------------------------
(* One session whose reads time out, with the timeouts written down.       *)

IdleChunks == { <<ByteA, LF>>, <<ByteA>>, <<LF>> }

InitIdle ==
    /\ InitSession
    /\ file = Present(<<ByteA, LF>>)
    /\ eng = from_config(TRUE, "linear_scan").eng

NextIdle ==
    \/ LoopTop(1)
    \/ \E chunk \in IdleChunks : RecvData(1, chunk)
    \/ IdleTimeout(1)
    \/ RecvEOF(1)
    \/ \E sends \in {"ok", "fail1", "fail2"} : ProcessLine(1, sends)
    \/ SetStop

SpecIdle == InitIdle /\ [][NextIdle]_vars

----------------------------------------------------------------------------
(* One session whose lines end in runs of "\r" and NUL bytes.              *)

TrimChunks ==
    { <<ByteA, NUL, CR, LF>>, <<ByteA, CR, NUL, LF>>, <<ByteA, CR, CR, LF>>, <<NUL, NUL, LF>> }

InitTrim ==
    /\ InitSession
    /\ file = Present(<<ByteA, LF>>)
    /\ eng = from_config(TRUE, "linear_scan").eng

NextTrim ==
    \/ LoopTop(1)
    \/ \E chunk \in TrimChunks : RecvData(1, chunk)
    \/ RecvTimeout(1)
    \/ RecvEOF(1)
    \/ \E sends \in {"ok", "fail1", "fail2"} : ProcessLine(1, sends)
    \/ SetStop

SpecTrim == InitTrim /\ [][NextTrim]_vars

----------------------------------------------------------------------------
(* server.py: start(), its accept loop, and the thread it starts for each  *)
(* accepted connection.  A connection c that no client has opened yet has  *)
(* cst[c] = "none"; its thread is "spawned", then in the TLS "handshake"   *)
(* when the server has an SSL context, then in _handle_client.             *)

\* start() up to the loop: the socket is created, bound and listening
\* (start() is called by the owner of the server object, or by main() once
\* it has built the server)
Start ==
    /\ srv.pos = "init"
    /\ proc.pos \in {"none", "serving"}
    /\ srv' = [srv EXCEPT !.pos = "loop", !.sock = "open"]
    /\ UNCHANGED << engVars, thrVars, stop, cst, buf, out, rx, nproc, endc, nrecv, tmo, mainVars >>

\* (a variant that does not look at the stop event, to test the sensitivity
\* of the properties)
AcceptLoopTestIgnoresStop ==
    /\ srv.pos = "loop"
    /\ srv' = [srv EXCEPT !.pos = "accept"]
    /\ UNCHANGED << engVars, thrVars, stop, cst, buf, out, rx, nproc, endc, nrecv, tmo, mainVars >>

\* "while not self._stop_event.is_set():" of start()
AcceptLoopTest ==
    /\ srv.pos = "loop"
    /\ srv' = [srv EXCEPT !.pos = IF stop THEN "done" ELSE "accept"]
    /\ UNCHANGED << engVars, thrVars, stop, cst, buf, out, rx, nproc, endc, nrecv, tmo, mainVars >>

\* accept() raises socket.timeout: "continue"
AcceptTimeout ==
    /\ srv.pos = "accept"
    /\ srv.sock = "open"
    /\ srv' = [srv EXCEPT !.pos = "loop"]
    /\ UNCHANGED << engVars, thrVars, stop, cst, buf, out, rx, nproc, endc, nrecv, tmo, mainVars >>

\* accept() raises another OSError: "break".  The socket was closed by
\* stop(), or it is open and the call failed for a passing reason (the
\* process is out of file descriptors, the client reset the connection while
\* it was in the backlog)
AcceptError ==
    /\ srv.pos = "accept"
    /\ srv' = [srv EXCEPT !.pos = "done"]
    /\ UNCHANGED << engVars, thrVars, stop, cst, buf, out, rx, nproc, endc, nrecv, tmo, mainVars >>

\* (a variant that cannot return while a handshake is running, as if the
\* socket were wrapped in the accept loop, to test the sensitivity of the
\* properties)
AcceptConnAfterHandshakes(c) ==
    /\ srv.pos = "accept"
    /\ srv.sock = "open"
    /\ cst[c] = "none"
    /\ \A d \in Conns : cst[d] \notin {"spawned", "handshake"}
    /\ cst' = [cst EXCEPT ![c] = "spawned"]
    /\ srv' = [srv EXCEPT !.pos = "loop"]
    /\ UNCHANGED << engVars, thrVars, stop, buf, out, rx, nproc, endc, nrecv, tmo, mainVars >>

\* accept() returns the connection of client c; a daemon thread is started
\* for it and the loop goes on
AcceptConn(c) ==
    /\ srv.pos = "accept"
    /\ srv.sock = "open"
    /\ cst[c] = "none"
    /\ cst' = [cst EXCEPT ![c] = "spawned"]
    /\ srv' = [srv EXCEPT !.pos = "loop"]
    /\ UNCHANGED << engVars, thrVars, stop, buf, out, rx, nproc, endc, nrecv, tmo, mainVars >>

\* _handle_client_thread starts: "if self._ssl_context is not None:" it
\* calls wrap_socket, else it calls _handle_client
ThreadBegin(c) ==
    /\ cst[c] = "spawned"
    /\ cst' = [cst EXCEPT ![c] = IF srv.tls THEN "handshake" ELSE "top"]
    /\ UNCHANGED << engVars, thrVars, stop, buf, out, rx, nproc, endc, nrecv, tmo, srv, mainVars >>

\* wrap_socket returns: _handle_client is called with the wrapped socket
HandshakeDone(c) ==
    /\ cst[c] = "handshake"
    /\ cst' = [cst EXCEPT ![c] = "top"]
    /\ UNCHANGED << engVars, thrVars, stop, buf, out, rx, nproc, endc, nrecv, tmo, srv, mainVars >>

\* (a variant that goes on to _handle_client after the failure, to test the
\* sensitivity of the properties)
HandshakeFailRunsHandler(c) ==
    /\ cst[c] = "handshake"
    /\ cst' = [cst EXCEPT ![c] = "top"]
    /\ endc' = [endc EXCEPT ![c] = "tls_failed"]
    /\ UNCHANGED << engVars, thrVars, stop, buf, out, rx, nproc, nrecv, tmo, srv, mainVars >>

\* wrap_socket raises ssl.SSLError: conn.close() and return
HandshakeFail(c) ==
    /\ cst[c] = "handshake"
    /\ EndSession(c, "tls_failed")
    /\ UNCHANGED << engVars, thrVars, stop, buf, out, rx, nproc, nrecv, tmo, srv, mainVars >>

\* wrap_socket raises an OSError that is no ssl.SSLError (the client reset
\* the connection): wrap_socket closes the socket before it raises, no
\* except clause takes the exception and it ends the thread
HandshakeError(c) ==
    /\ cst[c] = "handshake"
    /\ EndSession(c, "tls_error")
    /\ UNCHANGED << engVars, thrVars, stop, buf, out, rx, nproc, nrecv, tmo, srv, mainVars >>

\* the server of main(): an engine, an SSL context or none, start() not yet
\* called
InitAccept ==
    /\ file = Present(<<ByteA, LF>>)
    /\ grepOK = TRUE
    /\ eng = from_config(TRUE, "linear_scan").eng
    /\ cacheSrc = << >>
    /\ last = NoCall
    /\ ThreadsAtRest
    /\ stop = FALSE
    /\ cst = [c \in Conns |-> "none"]
    /\ buf = [c \in Conns |-> << >>]
    /\ out = [c \in Conns |-> << >>]
    /\ rx = [c \in Conns |-> << >>]
    /\ nproc = [c \in Conns |-> 0]
    /\ endc = [c \in Conns |-> "none"]
    /\ nrecv = 0
    /\ tmo = << >>
    /\ srv \in { [NoServer EXCEPT !.tls = b] : b \in BOOLEAN }
    /\ proc = NoProc
    /\ nstop = 0
    /\ ndisp = 0

NextAccept ==
    \/ Start
    \/ AcceptLoopTest
    \/ AcceptTimeout
    \/ AcceptError
    \/ \E c \in Conns : AcceptConn(c)
    \/ \E c \in Conns : ThreadBegin(c)
    \/ \E c \in Conns : HandshakeDone(c)
    \/ \E c \in Conns : HandshakeFail(c)
    \/ \E c \in Conns : HandshakeError(c)
    \/ \E c \in Conns : LoopTop(c)
    \/ \E c \in Conns : RecvEOF(c)
    \/ SetStop

SpecAccept == InitAccept /\ [][NextAccept]_vars

----------------------------------------------------------------------------
(* A TLS server whose clients send a query once their handshake is done.   *)

InitHandshake ==
    /\ InitAccept
    /\ srv.tls

NextHandshake ==
    \/ Start
    \/ AcceptLoopTest
    \/ AcceptTimeout
    \/ AcceptError
    \/ \E c \in Conns : AcceptConn(c)
    \/ \E c \in Conns : ThreadBegin(c)
    \/ \E c \in Conns : HandshakeDone(c)
    \/ \E c \in Conns : HandshakeFail(c)
    \/ \E c \in Conns : HandshakeError(c)
    \/ \E c \in Conns : LoopTop(c)
    \/ \E c \in Conns : RecvData(c, <<ByteA, LF>>)
    \/ \E c \in Conns : RecvEOF(c)
    \/ \E c \in Conns : ProcessLine(c, "ok")
    \/ SetStop

SpecHandshake == InitHandshake /\ [][NextHandshake]_vars

----------------------------------------------------------------------------
(* A server without TLS whose owner calls stop() at any time, more than    *)
(* once, while start() runs in another thread and sessions are open.       *)

\* (a variant that also closes the sockets of the sessions, to test the
\* sensitivity of the properties)
StopCallForcing ==
    /\ nstop < MaxStop
    /\ nstop' = nstop + 1
    /\ stop' = TRUE
    /\ srv' = [srv EXCEPT !.sock = IF @ = "none" THEN "none" ELSE "closed"]
    /\ cst' = [c \in Conns |-> IF cst[c] = "none" THEN "none" ELSE "closed"]
    /\ UNCHANGED << engVars, thrVars, buf, out, rx, nproc, endc, nrecv, tmo, proc, ndisp >>

\* server.stop(), counted in nstop: "self._stop_event.set()", and
\* "self._sock.close()" if start() has made the socket (closing a closed
\* socket does nothing)
StopCall ==
    /\ nstop < MaxStop
    /\ nstop' = nstop + 1
    /\ stop' = TRUE
    /\ srv' = [srv EXCEPT !.sock = IF @ = "none" THEN "none" ELSE "closed"]
    /\ UNCHANGED << engVars, thrVars, cst, buf, out, rx, nproc, endc, nrecv, tmo, proc, ndisp >>

InitStop ==
    /\ InitAccept
    /\ ~srv.tls

NextStop ==
    \/ Start
    \/ AcceptLoopTest
    \/ AcceptTimeout
    \/ AcceptError
    \/ \E c \in Conns : AcceptConn(c)
    \/ \E c \in Conns : ThreadBegin(c)
    \/ \E c \in Conns : LoopTop(c)
    \/ \E c \in Conns : RecvTimeout(c)
    \/ \E c \in Conns : RecvEOF(c)
    \/ StopCall

SpecStop == InitStop /\ [][NextStop]_vars

----------------------------------------------------------------------------
(* The server shutting down, with or without TLS.  The accept loop takes   *)
(* two steps for a connection, accept() returning it and the thread being  *)
(* started, so that stop() can run between the two.                        *)

\* accept() returns the connection of client c
AcceptReturn(c) ==
    /\ srv.pos = "accept"
    /\ srv.sock = "open"
    /\ cst[c] = "none"
    /\ cst' = [cst EXCEPT ![c] = "accepted"]
    /\ srv' = [srv EXCEPT !.pos = "dispatch"]
    /\ UNCHANGED << engVars, thrVars, stop, buf, out, rx, nproc, endc, nrecv, tmo, mainVars >>

\* "t = threading.Thread(...); t.start()", counted in ndisp when a stop()
\* has returned before
Dispatch(c) ==
    /\ srv.pos = "dispatch"
    /\ cst[c] = "accepted"
    /\ cst' = [cst EXCEPT ![c] = "spawned"]
    /\ srv' = [srv EXCEPT !.pos = "loop"]
    /\ ndisp' = IF nstop > 0 THEN ndisp + 1 ELSE ndisp
    /\ UNCHANGED << engVars, thrVars, stop, buf, out, rx, nproc, endc, nrecv, tmo, proc, nstop >>

NextShutdown ==
    \/ Start
    \/ AcceptLoopTest
    \/ AcceptTimeout
    \/ AcceptError
    \/ \E c \in Conns : AcceptReturn(c)
    \/ \E c \in Conns : Dispatch(c)
    \/ \E c \in Conns : ThreadBegin(c)
    \/ \E c \in Conns : HandshakeDone(c)
    \/ \E c \in Conns : HandshakeFail(c)
    \/ \E c \in Conns : HandshakeError(c)
    \/ \E c \in Conns : LoopTop(c)
    \/ \E c \in Conns : RecvData(c, <<ByteA, LF>>)
    \/ \E c \in Conns : RecvTimeout(c)
    \/ \E c \in Conns : RecvEOF(c)
    \/ \E c \in Conns, sends \in {"ok", "fail1"} : ProcessLine(c, sends)
    \/ StopCall

SpecShutdown == InitAccept /\ [][NextShutdown]_vars

\* What the scheduling of the threads gives.  A thread that can take a step
\* of its own code takes it; accept() ends within its timeout of 0.5 s,
\* recv() and sendall() within their timeout of 1.0 s, with one of their
\* outcomes.  wrap_socket() runs on a socket without timeout and ends when
\* the client lets it: no fairness for the handshake.
FairShutdown ==
    /\ WF_vars(AcceptLoopTest)
    /\ WF_vars(AcceptTimeout \/ AcceptError \/ \E c \in Conns : AcceptReturn(c))
    /\ \A c \in Conns :
          /\ WF_vars(Dispatch(c))
          /\ WF_vars(ThreadBegin(c))
          /\ WF_vars(LoopTop(c))
          /\ WF_vars(RecvData(c, <<ByteA, LF>>) \/ RecvTimeout(c) \/ RecvEOF(c))
          /\ WF_vars(\E sends \in {"ok", "fail1"} : ProcessLine(c, sends))

SpecShutdownFair == InitAccept /\ [][NextShutdown]_vars /\ FairShutdown

----------------------------------------------------------------------------
(* The functions of search.py called one by one on a file, as the tests of *)
(* the algorithms call them: a cache-backed search is its build followed   *)
(* by its lookup.  Or one SearchEngine in Reread mode asked one query.     *)

ScanAlphabet == {LF, CR, ByteA}
ScanFiles == BSeq(ScanAlphabet, MaxScanFileLen)
ScanQueries == BSeq(ScanAlphabet \cup {NUL}, MaxScanQueryLen)

\* the result of one algorithm on a file: "TRUE", "FALSE" or the exception
SearchWith(algo, f, query, grepInstalled) ==
    IF algo = "linear_scan" THEN search_linear_scan(f, query)
    ELSE IF algo = "set_cache"
    THEN LET cache == build_set_cache(f)
         IN  IF cache.kind = "SearchError" THEN "SearchError"
             ELSE B2O(search_set_cache(cache.set, query))
    ELSE IF algo = "sorted_bisect"
    THEN LET sorted_lines == build_sorted_list(f)
         IN  IF sorted_lines.kind = "SearchError" THEN "SearchError"
             ELSE B2O(search_sorted_bisect(sorted_lines.list, query))
    ELSE IF algo = "mmap_scan" THEN search_mmap_scan(f, query)
    ELSE search_grep_fx(f, query, grepInstalled)

\* a caller without an engine calls one algorithm
Search(algo, query) ==
    /\ eng.made = "no"
    /\ last = NoCall
    /\ last' = [op |-> algo, q |-> query, res |-> SearchWith(algo, file, query, grepOK)]
    /\ UNCHANGED << file, grepOK, eng, cacheSrc, thrVars, sessVars, mainVars >>

\* the first query of an engine
FirstExists(query) ==
    /\ last = NoCall
    /\ Exists(query)

InitSearch ==
    /\ file \in { Present(d) : d \in ScanFiles } \cup {Absent}
    /\ grepOK \in BOOLEAN
    /\ eng \in {NoEngine} \cup { from_config(TRUE, a).eng : a \in REREAD_ALGOS }
    /\ last = NoCall
    /\ cacheSrc = << >>
    /\ ThreadsAtRest
    /\ SessionsAtRest

NextSearch ==
    \/ \E a \in ALL_ALGOS, q \in ScanQueries : Search(a, q)
    \/ \E q \in ScanQueries : FirstExists(q)

SpecSearch == InitSearch /\ [][NextSearch]_vars

----------------------------------------------------------------------------
(* server.py: main().  The process loads the config file, makes the        *)
(* engine, warms it up in Cached mode, builds the SSL context and the      *)
(* server, and calls server.start(); server.stop() runs when start() is    *)
(* left.  A SystemExit with a message, and an exception that nothing       *)
(* catches, both end the process with status 1.                            *)

\* the lines of the config files of the model
CfgLines ==
    { << >>,
      << "sp", "#", "linuxpath", "=" >>,
      << "color", "=", "red" >>,
      << "linuxpath", "sp", "=", "data" >>,
      << "sp", "linuxpath", "=", "sp", "data", "sp" >>,
      << "linuxpath", "=", "sp" >>,
      << "reread_on_query", "=", "False" >>,
      << "reread_on_query", "=", "maybe" >>,
      << "search_algo", "=", "set_cache" >>,
      << "search_algo", "=", "mmap_scan" >>,
      << "search_algo", "=", "bogus" >>,
      << "ssl_enabled", "=", "sp", "yes" >> }

\* a config file for a TLS server, and the lines that may follow in it
TlsConfig ==
    << << "linuxpath", "=", "data" >>,
       << "ssl_enabled", "=", "on" >>,
       << "ssl_certfile", "=", "crt" >>,
       << "ssl_keyfile", "=", "key" >> >>
TlsLines ==
    { << "ssl_verify", "=", "0" >>,
      << "ssl_cafile", "=", "ca" >>,
      << "ssl_keyfile", "=" >> }

CfgFiles ==
    { CfgFile(l) : l \in BSeq(CfgLines, MaxCfgLines) }
        \cup { CfgFile(TlsConfig \o l) : l \in BSeq(TlsLines, MaxCfgLines) }
        \cup { NoCfgFile }

\* the process ends: sys.exit status and what it wrote to stderr
Exit(status, msg) ==
    proc' = [proc EXCEPT !.pos = "exited", !.status = status, !.msg = msg]

\* "app_cfg = load_config(args.config)" and its except clause
MainLoadConfig ==
    /\ proc.pos = "load_config"
    /\ LET r == load_config(proc.cfg)
       IN  IF r.res = "ConfigError" THEN Exit(1, "Config error")
           ELSE proc' = [proc EXCEPT !.pos = "from_config", !.app = r.cfg]
    /\ UNCHANGED << engVars, thrVars, sessVars, nstop, ndisp >>

\* "engine = SearchEngine.from_config(app_cfg)", in no try block
MainFromConfig ==
    /\ proc.pos = "from_config"
    /\ LET r == from_config(proc.app.reread_on_query, proc.app.search_algo)
       IN  IF r.res # "None"
           THEN Exit(1, "Traceback: EngineError") /\ UNCHANGED eng
           ELSE /\ eng' = r.eng
                /\ proc' = [proc EXCEPT !.pos = IF proc.app.reread_on_query
                                                 THEN "ssl_context" ELSE "warmup"]
    /\ UNCHANGED << file, grepOK, last, cacheSrc, thrVars, sessVars, nstop, ndisp >>

\* "engine.warmup()" and its except clause
MainWarmup ==
    /\ proc.pos = "warmup"
    /\ LET r == warmup(eng, file)
       IN  /\ eng' = r.eng
           /\ cacheSrc' = IF r.eng.cache.kind = "none" THEN << >>
                          ELSE IF r.res = "None" THEN file.data ELSE cacheSrc
           /\ IF r.res = "EngineError" THEN Exit(1, "Engine error")
              ELSE proc' = [proc EXCEPT !.pos = "ssl_context"]
    /\ UNCHANGED << file, grepOK, last, thrVars, sessVars, nstop, ndisp >>

\* "ssl_ctx = _build_server_ssl_context(app_cfg)" and the constructor of the
\* server; load_cert_chain raises (in no try block) when it cannot load the
\* certificate and the key
MainBuildServer(loaded) ==
    /\ proc.pos = "ssl_context"
    /\ IF proc.app.ssl_enabled /\ ~loaded
       THEN Exit(1, "Traceback: SSLError") /\ UNCHANGED srv
       ELSE /\ srv' = [NoServer EXCEPT !.tls = proc.app.ssl_enabled]
            /\ proc' = [proc EXCEPT !.pos = "serving"]
    /\ UNCHANGED << engVars, thrVars, stop, cst, buf, out, rx, nproc, endc, nrecv, tmo, nstop, ndisp >>

\* server.start() raises at bind() or listen() (the port is taken): "except
\* Exception", after the finally clause has called server.stop()
MainStartFails ==
    /\ proc.pos = "serving"
    /\ srv.pos = "init"
    /\ srv' = [srv EXCEPT !.pos = "done", !.sock = "closed"]
    /\ stop' = TRUE
    /\ nstop' = nstop + 1
    /\ Exit(1, "Fatal error")
    /\ UNCHANGED << engVars, thrVars, cst, buf, out, rx, nproc, endc, nrecv, tmo, ndisp >>

\* KeyboardInterrupt inside server.start(): "pass", then the finally clause
MainInterrupt ==
    /\ proc.pos = "serving"
    /\ srv.pos \in {"loop", "accept"}
    /\ srv' = [srv EXCEPT !.pos = "done", !.sock = "closed"]
    /\ stop' = TRUE
    /\ nstop' = nstop + 1
    /\ Exit(0, "none")
    /\ UNCHANGED << engVars, thrVars, cst, buf, out, rx, nproc, endc, nrecv, tmo, ndisp >>

\* server.start() returns: the finally clause, and main() returns
MainReturn ==
    /\ proc.pos = "serving"
    /\ srv.pos = "done"
    /\ srv' = [srv EXCEPT !.sock = "closed"]
    /\ stop' = TRUE
    /\ nstop' = nstop + 1
    /\ Exit(0, "none")
    /\ UNCHANGED << engVars, thrVars, cst, buf, out, rx, nproc, endc, nrecv, tmo, ndisp >>

MainFiles == { Present(<<ByteA, LF>>), Absent }

InitMain ==
    /\ file \in MainFiles
    /\ grepOK = TRUE
    /\ eng = NoEngine
    /\ last = NoCall
    /\ cacheSrc = << >>
    /\ ThreadsAtRest
    /\ stop = FALSE
    /\ cst = [c \in Conns |-> "none"]
    /\ buf = [c \in Conns |-> << >>]
    /\ out = [c \in Conns |-> << >>]
    /\ rx = [c \in Conns |-> << >>]
    /\ nproc = [c \in Conns |-> 0]
    /\ endc = [c \in Conns |-> "none"]
    /\ nrecv = 0
    /\ tmo = << >>
    /\ srv = NoServer
    /\ proc \in { [NoProc EXCEPT !.pos = "load_config", !.cfg = c] : c \in CfgFiles }
    /\ nstop = 0
    /\ ndisp = 0

NextMain ==
    \/ MainLoadConfig
    \/ MainFromConfig
    \/ MainWarmup
    \/ \E loaded \in BOOLEAN : MainBuildServer(loaded)
    \/ Start
    \/ MainStartFails
    \/ AcceptLoopTest
    \/ AcceptTimeout
    \/ AcceptError
    \/ \E c \in Conns : AcceptConn(c)
    \/ \E c \in Conns : ThreadBegin(c)
    \/ MainInterrupt
    \/ MainReturn

SpecMain == InitMain /\ [][NextMain]_vars

----------------------------------------------------------------------------
(* The properties                                                          *)

\* The full lines of a file: the pieces that "\n" ends, without the "\n" and
\* without one "\r" before it, and a last piece that no "\n" ends, as it is.
StripOneCR(l) == IF Len(l) > 0 /\ l[Len(l)] = CR THEN SubSeq(l, 1, Len(l) - 1) ELSE l
FullLines(data) ==
    LET ps == SplitLF(data)
        n == Len(ps)
    IN  { StripOneCR(ps[i]) : i \in 1..(n - 1) }
            \cup (IF ps[n] = << >> THEN {} ELSE { ps[n] })

\* the complete lines of the bytes a session received
CompleteLines(bytes) == LET ps == SplitLF(bytes) IN SubSeq(ps, 1, Len(ps) - 1)

Verdicts == { RESPONSE_EXISTS, RESPONSE_NOT_FOUND }
ConnectionEnds == { "client_closed", "stopped", "recv_error", "write_failed" }

\* C1: with a readable file, exists(q) of every algorithm returns true exactly
\* when q equals some full line of the file (of the file the cache was built
\* from, which here is the current one).
C1_ExactFullLineMatch ==
    ( /\ last.op = "exists"
      /\ file.present
      /\ grepOK
      /\ eng.algo \in CACHED_ALGOS => cacheSrc = file.data )
    => last.res = B2O(last.q \in FullLines(file.data))

\* C2: however many threads call exists() on an engine without a cache, at
\* most one cache build started by exists() is stored.
C2_AtMostOneLazyBuild == nlazy <= 1

\* C3: the cache of the engine is absent or the complete cache of one file
\* content, in every state, whatever builds are running; a call that has
\* reached its lookup finds a cache.
C3_NoPartialCache ==
    /\ eng.cache.kind = "none" \/ eng.cache = BuildFor(eng.algo, Present(cacheSrc))
    /\ \A t \in Threads : pc[t] = "ex_lookup" => eng.cache.kind # "none"

\* a lookup is about to read the cache while another thread is in the middle
\* of a build
C3_Witness ==
    \E t1, t2 \in Threads :
        /\ pc[t1] = "wu_read"
        /\ 0 < tpos[t1]
        /\ tpos[t1] < Len(TextLines(tsrc[t1]))
        /\ pc[t2] = "ex_lookup"
        /\ eng.cache.kind # "none"

\* C4: as long as no send has failed, a session has written two lines for
\* each complete line it took, a DEBUG line and then a verdict, and it has
\* ended only because the client closed, the connection failed or the server
\* stopped.
C4_TwoLinesPerQuery ==
    \A c \in Conns :
        endc[c] # "write_failed" =>
            /\ Len(out[c]) = 2 * nproc[c]
            /\ \A k \in 1..nproc[c] :
                   out[c][2 * k - 1].line = "DEBUG" /\ out[c][2 * k] \in Verdicts
            /\ cst[c] = "closed" => endc[c] \in ConnectionEnds

\* C5: on every connection the lines written are those of the responses to
\* the complete lines received, in the order of arrival: lines 2k-1 and 2k
\* are the DEBUG line with the k-th query and the verdict of the k-th query.
C5_ResponsesInOrder ==
    \A c \in Conns :
        LET ls == CompleteLines(rx[c])
        IN  /\ Len(out[c]) <= 2 * Len(ls)
            /\ \A i \in 1..Len(out[c]) :
                   LET raw == TrimLine(ls[(i + 1) \div 2])
                       q == Decode(raw)
                   IN  IF i % 2 = 1
                       THEN out[c][i] = IF Len(raw) > MAX_PAYLOAD_BYTES THEN DebugTooLong
                                        ELSE DebugLine(q)
                       ELSE out[c][i] =
                                IF /\ Len(raw) <= MAX_PAYLOAD_BYTES
                                   /\ exists(eng, file, q, grepOK).res = "TRUE"
                                THEN RESPONSE_EXISTS ELSE RESPONSE_NOT_FOUND

\* a connection that got two responses, to different queries with different
\* verdicts
C5_Witness ==
    \E c \in Conns :
        /\ Len(out[c]) >= 4
        /\ out[c][1].q # out[c][3].q
        /\ out[c][2] # out[c][4]

\* C6: no session ends because of what the search of a query did: a session
\* ends only because the client closed, the connection failed or the server
\* stopped.
C6_NoProtocolBreak ==
    \A c \in Conns : cst[c] = "closed" => endc[c] \in ConnectionEnds

\* C7: when exists() raises EngineError for the query of a line, the session
\* writes the DEBUG line of the query and STRING NOT FOUND (unless a send
\* fails), stays open and goes on with the rest of its buffer.
C7_EngineErrorIsNotFound ==
    [][ \A c \in Conns :
          (cst[c] = "lines" /\ nproc'[c] = nproc[c] + 1) =>
              LET parts == SplitFirstLF(buf[c])
                  raw == TrimLine(parts[1])
                  q == Decode(raw)
              IN  ( /\ Len(raw) <= MAX_PAYLOAD_BYTES
                    /\ exists(eng, file, q, grepOK).res = "EngineError" )
                  => \/ endc'[c] = "write_failed"
                     \/ /\ out'[c] = out[c] \o << DebugLine(q), RESPONSE_NOT_FOUND >>
                        /\ buf'[c] = parts[2]
                        /\ endc'[c] = "none"
                        /\ cst'[c] = IF HasLF(parts[2]) THEN "lines" ELSE "top" ]_vars

\* a session whose queries raise EngineError (the file is missing) answered
\* two of them and is open
C7_Witness ==
    \E c \in Conns :
        /\ Len(out[c]) >= 4
        /\ exists(eng, file, out[c][1].q, grepOK).res = "EngineError"
        /\ exists(eng, file, out[c][3].q, grepOK).res = "EngineError"
        /\ out[c][2] = RESPONSE_NOT_FOUND
        /\ out[c][4] = RESPONSE_NOT_FOUND
        /\ cst[c] # "closed"

\* C8: in Reread mode, with a readable file, exists(q) returns true exactly
\* when q equals some full line of the file as it is at the call, whatever
\* was written before.
C8_RereadIsFresh ==
    ( /\ last.op = "exists"
      /\ eng.reread
      /\ file.present
      /\ grepOK )
    => last.res = B2O(last.q \in FullLines(file.data))

\* C9: in Cached mode with a cache-backed algorithm, exists(q) returns true
\* exactly when q equals some full line of the file as it was when the cache
\* was built, whatever was written since.
C9_CachedIsFrozen ==
    ( /\ last.op = "exists"
      /\ ~eng.reread
      /\ eng.algo \in CACHED_ALGOS
      /\ eng.cache.kind # "none" )
    => last.res = B2O(last.q \in FullLines(cacheSrc))

\* the pairs of mode and algorithm that from_config must refuse
Incompatible(reread, algo) ==
    \/ algo \notin {"linear_scan", "mmap_scan", "grep_fx", "set_cache", "sorted_bisect"}
    \/ reread /\ algo \in {"set_cache", "sorted_bisect"}

C11_CheckedBeforeEveryCall ==
    [][ ( /\ eng.made = "ok"
          /\ Incompatible(eng.reread, eng.algo)
          /\ eng'.reread = eng.reread
          /\ eng'.algo = eng.algo
          /\ file' = file )
        => /\ last'.op \in {"exists", "warmup"}
           /\ last'.res = "EngineError"
           /\ eng'.cache = eng.cache ]_vars

\* exists() failed on an engine that was switched to Reread mode while it
\* held the set of set_cache, and the set is still there
C11_Witness ==
    /\ last.op = "exists"
    /\ last.res = "EngineError"
    /\ eng.reread
    /\ eng.algo = "set_cache"
    /\ eng.cache.kind = "set"

\* the index of a file: every line the reader yields, without its line end
IndexedLines(data) == { StripLine(TextLines(data)[i]) : i \in 1..Len(TextLines(data)) }
IsSortedList(l) == \A i \in 1..(Len(l) - 1) : ~LexLess(l[i + 1], l[i])

\* C12: after a warmup() that returned, a Cached engine with set_cache holds
\* the set of all lines of the file, one with sorted_bisect the sorted list
\* of all lines, whatever cache it held before; an engine with another
\* algorithm or in Reread mode holds no cache.
C12_WarmupStoresOrClears ==
    (last.op = "warmup" /\ last.res = "None") =>
        IF ~eng.reread /\ eng.algo = "set_cache"
        THEN eng.cache.kind = "set" /\ eng.cache.set = IndexedLines(file.data)
        ELSE IF ~eng.reread /\ eng.algo = "sorted_bisect"
        THEN /\ eng.cache.kind = "list"
             /\ Len(eng.cache.list) = Len(TextLines(file.data))
             /\ Range(eng.cache.list) = IndexedLines(file.data)
             /\ IsSortedList(eng.cache.list)
        ELSE eng.cache = NoCache

\* a warmup() of a sorted_bisect engine returned with a list of two lines
C12_Witness ==
    /\ last.op = "warmup"
    /\ last.res = "None"
    /\ ~eng.reread
    /\ eng.algo = "sorted_bisect"
    /\ eng.cache.list = << << >>, <<ByteA>> >>
    /\ file.data = <<ByteA, LF, LF>>

\* C13: a call of exists() on a Cached engine with set_cache or sorted_bisect
\* that holds no cache builds the cache from the file as it is and answers
\* from it (or fails with EngineError, storing nothing, when the file cannot
\* be read); a call on an engine that holds a cache leaves the cache as it is
\* and answers from it, whatever the file has become.
C13_LazyWarmupOnce ==
    [][ ( /\ eng.made = "ok"
          /\ ~eng.reread
          /\ eng.algo \in CACHED_ALGOS
          /\ last'.op = "exists"
          /\ file' = file )
        => IF eng.cache.kind = "none"
           THEN IF file.present
                THEN /\ eng'.cache = BuildFor(eng.algo, file)
                     /\ cacheSrc' = file.data
                     /\ last'.res = B2O(last'.q \in IndexedLines(file.data))
                ELSE /\ eng'.cache = eng.cache
                     /\ last'.res = "EngineError"
           ELSE /\ eng'.cache = eng.cache
                /\ cacheSrc' = cacheSrc
                /\ last'.res = B2O(last'.q \in IndexedLines(cacheSrc)) ]_vars

\* exists() answered true from a cache built before the file was replaced
\* by one that has no such line
C13_Witness ==
    /\ last.op = "exists"
    /\ ~eng.reread
    /\ eng.algo \in CACHED_ALGOS
    /\ eng.cache.kind # "none"
    /\ file.present
    /\ cacheSrc # file.data
    /\ last.res = "TRUE"
    /\ last.q \notin IndexedLines(file.data)

\* C14: a warmup() of a cache-backed engine that ends either raises
\* EngineError and leaves the engine as it was, or has read every line of
\* the file and stores the complete cache; it raises when the file is
\* missing at its open and when a read fails.
C14_WarmupFailsOrCompletes ==
    [][ \A t \in Threads :
          (pc[t] \in {"wu_enter", "wu_read"} /\ pc'[t] \notin {"wu_enter", "wu_read"}) =>
              /\ \/ /\ last'.res = "EngineError"
                    /\ last'.op = tret[t]
                    /\ pc'[t] = "idle"
                    /\ eng' = eng
                 \/ /\ pc[t] = "wu_read"
                    /\ tpos[t] = Len(TextLines(tsrc[t]))
                    /\ eng'.cache = BuildFor(eng.algo, Present(tsrc[t]))
              /\ (pc[t] = "wu_enter" /\ ~file.present) => last'.res = "EngineError"
              /\ (pc[t] = "wu_read" /\ tpos[t] < Len(TextLines(tsrc[t])))
                     => last'.res = "EngineError" ]_vars

\* a warmup() failed on a missing file and the engine has no cache
C14_Witness ==
    /\ last.op = "warmup"
    /\ last.res = "EngineError"
    /\ ~file.present
    /\ eng.cache.kind = "none"

\* C15: with linear_scan, mmap_scan or grep_fx, a call of exists() while the
\* reference file is missing raises EngineError, for every query.
C15_MissingFileRaises ==
    ( /\ last.op = "exists"
      /\ eng.algo \in REREAD_ALGOS
      /\ ~file.present )
    => last.res = "EngineError"

\* C16, as stated: a line of more than 1024 bytes before trimming gets the
\* too-long DEBUG line and STRING NOT FOUND (unless a send fails), the engine
\* is not called for it, and the session stays open and goes on with the
\* rest of its buffer.
C16_RejectsLongUntrimmed ==
    [][ (cst[1] = "lines" /\ nproc'[1] = nproc[1] + 1) =>
            LET parts == SplitFirstLF(buf[1])
            IN  Len(parts[1]) > 1024
                => /\ eng' = eng
                   /\ \/ endc'[1] = "write_failed"
                      \/ /\ out'[1] = out[1] \o << DebugTooLong, RESPONSE_NOT_FOUND >>
                         /\ buf'[1] = parts[2]
                         /\ endc'[1] = "none"
                         /\ cst'[1] = IF HasLF(parts[2]) THEN "lines" ELSE "top" ]_vars

\* C16, amended: a line of more than 1024 bytes after trimming gets the
\* too-long DEBUG line and STRING NOT FOUND (unless a send fails), the engine
\* is not called for it, and the session stays open and goes on with the
\* rest of its buffer.
C16_RejectsLongTrimmed ==
    [][ (cst[1] = "lines" /\ nproc'[1] = nproc[1] + 1) =>
            LET parts == SplitFirstLF(buf[1])
            IN  Len(TrimLine(parts[1])) > 1024
                => /\ eng' = eng
                   /\ \/ endc'[1] = "write_failed"
                      \/ /\ out'[1] = out[1] \o << DebugTooLong, RESPONSE_NOT_FOUND >>
                         /\ buf'[1] = parts[2]
                         /\ endc'[1] = "none"
                         /\ cst'[1] = IF HasLF(parts[2]) THEN "lines" ELSE "top" ]_vars

\* a line of 1025 letters was rejected and the short line after it was found
C16_Witness ==
    /\ Len(out[1]) = 4
    /\ out[1][1] = DebugTooLong
    /\ out[1][2] = RESPONSE_NOT_FOUND
    /\ out[1][3] = DebugLine(<<ByteA>>)
    /\ out[1][4] = RESPONSE_EXISTS
    /\ Len(CompleteLines(rx[1])[1]) = 1025

C20_HandshakeOffAcceptLoop ==
    \A c \in Conns :
        (srv.tls /\ srv.pos = "accept" /\ srv.sock = "open" /\ cst[c] = "none")
            => ENABLED AcceptConn(c)

\* the accept loop is back in accept() while two accepted connections are
\* still in their handshake
C20_Witness ==
    /\ srv.tls
    /\ srv.pos = "accept"
    /\ srv.sock = "open"
    /\ \E c1, c2 \in Conns : c1 # c2 /\ cst[c1] = "handshake" /\ cst[c2] = "handshake"

\* C21: a handshake that fails (with ssl.SSLError or with another OSError)
\* closes the socket of its connection and changes nothing else: start() is
\* where it was with its socket as it was, the stop flag and the other
\* connections are untouched; and a connection whose handshake failed stays
\* closed, nothing is ever read from it, no line of it is processed and
\* nothing is sent on it.
C21_HandshakeFailureIsLocal ==
    [][ \A c \in Conns :
          /\ (cst[c] = "handshake" /\ cst'[c] \notin {"handshake", "top"}) =>
                 /\ cst'[c] = "closed"
                 /\ endc'[c] \in {"tls_failed", "tls_error"}
                 /\ srv' = srv
                 /\ stop' = stop
                 /\ \A d \in Conns \ {c} : cst'[d] = cst[d]
          /\ (endc[c] \in {"tls_failed", "tls_error"}
                \/ endc'[c] \in {"tls_failed", "tls_error"}) =>
                 /\ cst'[c] = "closed"
                 /\ rx'[c] = << >>
                 /\ nproc'[c] = 0
                 /\ out'[c] = << >> ]_vars

\* one handshake failed with ssl.SSLError, start() is in accept() on its open
\* socket and can return the connection of the next client, and another
\* connection, whose handshake succeeded, has had its query answered
C21_Witness ==
    \E c1, c2 \in Conns :
        /\ endc[c1] = "tls_failed"
        /\ cst[c1] = "closed"
        /\ srv.pos = "accept"
        /\ srv.sock = "open"
        /\ out[c2] = << DebugLine(<<ByteA>>), RESPONSE_EXISTS >>

C23_OnlyFatalAcceptErrorEnds ==
    [][ (srv.pos = "accept" /\ srv'.pos # "accept") =>
            \/ srv'.pos = "loop"
            \/ srv'.pos = "done" /\ srv.sock = "closed" ]_vars

\* C24: a configuration that load_config refuses or whose mode and algorithm
\* do not go together, and a warmup that fails at startup, end the process
\* before the listener exists: no socket is ever made and no connection
\* accepted, the process exits with a status other than 0, and what it
\* writes is "Config error: ..." in the first two cases and "Engine error:
\* ..." in the third.
C24_StartupErrorsAreFatal ==
    LET r == load_config(proc.cfg)
        reread == r.cfg.reread_on_query
        algo == r.cfg.search_algo
        badConfig == r.res # "None" \/ Incompatible(reread, algo)
        badWarmup == /\ ~badConfig
                     /\ ~reread
                     /\ algo \in {"set_cache", "sorted_bisect"}
                     /\ ~file.present
    IN  proc.pos # "none" =>
          /\ (badConfig \/ badWarmup) =>
                 /\ srv.pos = "init"
                 /\ srv.sock = "none"
                 /\ \A c \in Conns : cst[c] = "none"
          /\ (badConfig /\ proc.pos \notin {"load_config", "from_config"}) =>
                 /\ proc.pos = "exited"
                 /\ proc.status # 0
                 /\ proc.msg = "Config error"
          /\ (badWarmup /\ proc.pos \notin {"load_config", "from_config", "warmup"}) =>
                 /\ proc.pos = "exited"
                 /\ proc.status # 0
                 /\ proc.msg = "Engine error"

\* The keys load_config reads, and the values a config file gives to a key,
\* in the order of its lines.
CfgKeys ==
    { "linuxpath", "reread_on_query", "search_algo", "ssl_enabled", "ssl_certfile",
      "ssl_keyfile", "ssl_verify", "ssl_cafile" }
IsComment(line) == Strip(line) # << >> /\ Strip(line)[1] = "#"
IsEntry(line, key) == ~IsComment(line) /\ StartsWithKey(Strip(line), key)
Ignored(line) == \A k \in CfgKeys : ~IsEntry(line, k)
Values(c, key) ==
    LET es == SelectSeq(c.lines, LAMBDA l : IsEntry(l, key))
    IN  [ i \in 1..Len(es) |-> ValueOf(Strip(es[i])) ]
LastValue(c, key, default) ==
    IF Values(c, key) = << >> THEN default ELSE Values(c, key)[Len(Values(c, key))]
IsBoolean(value) ==
    value \in { <<w>> : w \in {"true", "True", "1", "yes", "y", "on",
                               "false", "False", "0", "no", "n", "off"} }
IsTrue(value) == value \in { <<w>> : w \in {"true", "True", "1", "yes", "y", "on"} }
WithoutIgnored(c) == [c EXCEPT !.lines = SelectSeq(c.lines, LAMBDA l : ~Ignored(l))]

\* what a process that is past load_config shows of its result
Loaded(accepted) ==
    proc.pos # "load_config" =>
        IF accepted THEN proc.app = load_config(proc.cfg).cfg /\ proc.msg # "Config error"
        ELSE proc.pos = "exited" /\ proc.status = 1 /\ proc.msg = "Config error"

IgnoredAndDefaults ==
    /\ load_config(WithoutIgnored(proc.cfg)) = load_config(proc.cfg)
    /\ load_config(proc.cfg).res = "None" =>
          /\ Values(proc.cfg, "reread_on_query") = << >>
                => load_config(proc.cfg).cfg.reread_on_query = TRUE
          /\ Values(proc.cfg, "search_algo") = << >>
                => load_config(proc.cfg).cfg.search_algo = "linear_scan"

\* C27, as stated: load_config returns a configuration exactly for the files
\* that give linuxpath a value that is not empty and whose search_algo is one
\* of the five names, and raises ConfigError for every other; lines it
\* ignores do not change the result; reread_on_query and search_algo default
\* to true and linear_scan.
C27_AcceptsIffPathAndAlgo ==
    LET c == proc.cfg
        accepted ==
            /\ c.present
            /\ \E i \in 1..Len(Values(c, "linuxpath")) : Values(c, "linuxpath")[i] # << >>
            /\ LastValue(c, "search_algo", << "linear_scan" >>)
                   \in { <<a>> : a \in {"linear_scan", "mmap_scan", "grep_fx",
                                        "set_cache", "sorted_bisect"} }
    IN  proc.pos # "none" =>
          /\ load_config(c).res = (IF accepted THEN "None" ELSE "ConfigError")
          /\ Loaded(accepted)
          /\ IgnoredAndDefaults

\* C27, amended: load_config returns a configuration exactly for the files
\* that can be read, have a linuxpath entry, have no linuxpath or search_algo
\* entry with an empty value, whose last search_algo entry (if any) is one of
\* the five names, whose reread_on_query, ssl_enabled and ssl_verify entries
\* are all boolean words, and which, if ssl_enabled is true, give ssl_certfile
\* and ssl_keyfile and (unless ssl_verify is false) ssl_cafile; it raises
\* ConfigError for every other; lines it ignores do not change the result;
\* reread_on_query and search_algo default to true and linear_scan.
C27_AcceptsIffValid ==
    LET c == proc.cfg
        noneEmpty(key) == \A i \in 1..Len(Values(c, key)) : Values(c, key)[i] # << >>
        allBoolean(key) == \A i \in 1..Len(Values(c, key)) : IsBoolean(Values(c, key)[i])
        accepted ==
            /\ c.present
            /\ Values(c, "linuxpath") # << >>
            /\ noneEmpty("linuxpath")
            /\ noneEmpty("search_algo")
            /\ LastValue(c, "search_algo", << "linear_scan" >>)
                   \in { <<a>> : a \in {"linear_scan", "mmap_scan", "grep_fx",
                                        "set_cache", "sorted_bisect"} }
            /\ allBoolean("reread_on_query")
            /\ allBoolean("ssl_enabled")
            /\ allBoolean("ssl_verify")
            /\ IsTrue(LastValue(c, "ssl_enabled", << "false" >>)) =>
                   /\ LastValue(c, "ssl_certfile", << >>) # << >>
                   /\ LastValue(c, "ssl_keyfile", << >>) # << >>
                   /\ IsTrue(LastValue(c, "ssl_verify", << "true" >>))
                          => LastValue(c, "ssl_cafile", << >>) # << >>
    IN  proc.pos # "none" =>
          /\ load_config(c).res = (IF accepted THEN "None" ELSE "ConfigError")
          /\ Loaded(accepted)
          /\ IgnoredAndDefaults

\* a file with a line of an unknown key and a padded linuxpath line was
\* accepted with the defaults, and the server built from it is running
C27_Witness ==
    /\ proc.cfg = CfgFile(<< << "color", "=", "red" >>,
                             << "sp", "linuxpath", "=", "sp", "data", "sp" >> >>)
    /\ proc.pos = "serving"
    /\ proc.app.linuxpath = << "data" >>
    /\ proc.app.reread_on_query = TRUE
    /\ proc.app.search_algo = "linear_scan"
    /\ srv.pos = "accept"

\* C25: on every file and for every query, search_linear_scan, the set
\* build_set_cache makes asked by search_set_cache, and the list
\* build_sorted_list makes asked by search_sorted_bisect give one and the
\* same result.
C25_ScanSetBisectAgree ==
    last.op \in {"linear_scan", "set_cache", "sorted_bisect"} =>
        \A a \in {"linear_scan", "set_cache", "sorted_bisect"} :
            SearchWith(a, file, last.q, grepOK) = last.res

\* sorted_bisect found the empty line, the second of the lines "a" and ""
C25_Witness ==
    /\ last = [op |-> "sorted_bisect", q |-> << >>, res |-> "TRUE"]
    /\ file = Present(<<ByteA, LF, LF>>)

\* C26: the result of a query asked of a Reread engine with linear_scan,
\* mmap_scan or grep_fx is the result each of the three gives for that query
\* on that file (the file is there and grep can be run).
C26_RereadAlgorithmsAgree ==
    ( /\ last.op = "exists"
      /\ eng.reread
      /\ eng.algo \in {"linear_scan", "mmap_scan", "grep_fx"}
      /\ file.present
      /\ grepOK )
    => \A a \in {"linear_scan", "mmap_scan", "grep_fx"} :
           exists(from_config(TRUE, a).eng, file, last.q, grepOK).res = last.res

\* where a query occurs in a file as a whole line, by the rule of C28
LineBoundedAt(data, q, p) ==
    LET n == Len(data)
        after == p + Len(q)
    IN  /\ after <= n
        /\ SubSeq(data, p + 1, after) = q
        /\ p = 0 \/ data[p] = LF
        /\ \/ after = n
           \/ data[after + 1] = LF
           \/ data[after + 1] = CR /\ (after + 1 = n \/ data[after + 2] = LF)

\* C28: for a query that is not empty, search_mmap_scan returns true exactly
\* when the query occurs in the file at an offset that is 0 or follows "\n",
\* and is followed by the end of the file, by "\n", or by "\r" and then "\n"
\* or the end of the file; occurrences that are not so bounded, wherever
\* they lie, do not hide one that is.
C28_MmapLineBounded ==
    (last.op = "mmap_scan" /\ last.q # << >> /\ file.present) =>
        last.res = B2O(\E p \in 0..Len(file.data) : LineBoundedAt(file.data, last.q, p))

\* the query "\n\n" in the file "a\n\n\n": the occurrence at offset 1 is
\* rejected, the one at offset 2, which overlaps it, is found
C28_Witness ==
    /\ last = [op |-> "mmap_scan", q |-> <<LF, LF>>, res |-> "TRUE"]
    /\ file = Present(<<ByteA, LF, LF, LF>>)

\* C29: search_mmap_scan returns false, and raises nothing, for the empty
\* query on every file, and for every query on the empty file.
C29_MmapEmptyIsFalse ==
    (last.op = "mmap_scan" /\ file.present /\ (last.q = << >> \/ file.data = << >>)) =>
        last.res = "FALSE"

\* the empty query was searched in a file of two empty lines
C29_Witness ==
    /\ last = [op |-> "mmap_scan", q |-> << >>, res |-> "FALSE"]
    /\ file = Present(<<LF, LF>>)

\* C30: search_grep_fx returns true when grep exits with status 0 and false
\* when it exits with another status; it raises SearchError, which exists()
\* turns into EngineError, when grep cannot be run, and nothing else.
C30_GrepStatusDecides ==
    /\ last.op = "grep_fx" =>
          last.res = IF grepOK THEN B2O(GrepStatus(file, last.q) = 0) ELSE "SearchError"
    /\ (last.op = "exists" /\ eng.algo = "grep_fx") =>
          last.res = IF grepOK THEN B2O(GrepStatus(file, last.q) = 0) ELSE "EngineError"

\* C33: a Cached engine with set_cache or sorted_bisect whose fields are left
\* alone has no cache when from_config returns it, gets one only from a
\* warmup() or an exists() that succeeds on a readable file, and once it has
\* a cache no call and no change of the file takes the cache away.
C33_ReadyStaysReady ==
    [][ /\ (eng.made = "no" /\ eng'.made = "ok") => eng'.cache.kind = "none"
        /\ (eng.made = "ok" /\ ~eng.reread /\ eng.algo \in CACHED_ALGOS) =>
              /\ eng.cache.kind # "none" => eng'.cache.kind # "none"
              /\ (eng.cache.kind = "none" /\ eng'.cache.kind # "none") =>
                    /\ file.present
                    /\ \/ last'.op = "warmup" /\ last'.res = "None"
                       \/ last'.op = "exists" /\ last'.res \in {"TRUE", "FALSE"} ]_vars

\* an engine that holds its sorted list answers a query after the file was
\* removed
C33_Witness ==
    /\ last.op = "exists"
    /\ last.res = "TRUE"
    /\ ~eng.reread
    /\ eng.algo = "sorted_bisect"
    /\ eng.cache.kind = "list"
    /\ ~file.present

\* C34: in Cached mode with linear_scan, mmap_scan or grep_fx the engine
\* never holds a cache, whether warmup() was called or not, and a call of
\* exists() leaves the engine as it was and answers what an engine made
\* afresh answers on the file as it is at the call.
C34_RereadAlgosKeepNoIndex ==
    [][ (eng'.made = "ok" /\ ~eng'.reread /\ eng'.algo \in REREAD_ALGOS) =>
            /\ eng'.cache = NoCache
            /\ \A q \in Queries :
                   (Exists(q) /\ eng.made = "ok") =>
                       /\ eng' = eng
                       /\ last'.res =
                              exists(from_config(FALSE, eng.algo).eng, file, q, grepOK).res ]_vars

\* exists() of a Cached mmap_scan engine found the line of a file that was
\* written after the engine was made, and the engine holds no cache
C34_Witness ==
    /\ last.op = "exists"
    /\ last.res = "TRUE"
    /\ ~eng.reread
    /\ eng.algo = "mmap_scan"
    /\ eng.cache = NoCache
    /\ file = Present(<<ByteA, LF>>)

\* C36: a warmup() that raises because the build failed leaves the engine as
\* it was: one that held a cache holds the same cache and answers the next
\* exists() from it, one that held none holds none and its next exists()
\* builds the cache from the file as it is then.
C36_FailedWarmupChangesNothing ==
    [][ (Warmup /\ last'.res = "EngineError") =>
            /\ ~file.present
            /\ eng' = eng
            /\ cacheSrc' = cacheSrc
            /\ \A q \in Queries, f \in FileStates :
                   LET r == exists(eng', f, q, grepOK')
                   IN  IF eng.cache.kind # "none"
                       THEN /\ r.eng = eng
                            /\ r.res = B2O(q \in IndexedLines(cacheSrc))
                       ELSE IF f.present
                       THEN /\ r.eng.cache = BuildFor(eng.algo, f)
                            /\ r.res = B2O(q \in IndexedLines(f.data))
                       ELSE r.eng = eng /\ r.res = "EngineError" ]_vars

\* warmup() failed on an engine that holds the set built from a file that
\* is gone
C36_Witness ==
    /\ last.op = "warmup"
    /\ last.res = "EngineError"
    /\ ~file.present
    /\ eng.algo = "set_cache"
    /\ eng.cache = SetCacheOf({<<ByteA>>})
    /\ cacheSrc = <<ByteA, LF>>

\* C37: whatever the fields of the engine were set to between the calls, a
\* call of exists() returns a boolean or raises EngineError, and a Cached
\* engine that holds a cache holds a set if its algorithm is set_cache and a
\* sorted list if it is sorted_bisect.
C37_ExistsBoolOrEngineError ==
    /\ last.op = "exists" => last.res \in {"TRUE", "FALSE", "EngineError"}
    /\ (eng.made = "ok" /\ ~eng.reread /\ eng.cache.kind # "none") =>
          /\ eng.algo = "set_cache" => eng.cache.kind = "set"
          /\ eng.algo = "sorted_bisect" =>
                 eng.cache.kind = "list" /\ IsSortedList(eng.cache.list)

\* C31: the query of every complete line, as the DEBUG line of its response
\* shows it, ends in neither "\r" nor NUL, and it is the line without a run
\* of "\r" and NUL bytes at its end: the bytes before that run are kept.
C31_QueryEndsInNeitherCRNorNUL ==
    \A c \in Conns :
        LET ls == CompleteLines(rx[c])
        IN  \A i \in 1..Len(out[c]) :
                (i % 2 = 1 /\ ~out[c][i].error) =>
                    LET l == ls[(i + 1) \div 2]
                        q == out[c][i].q
                    IN  /\ Len(q) > 0 => q[Len(q)] \notin {CR, NUL}
                        /\ \E n \in 0..Len(l) :
                               /\ q = Decode(SubSeq(l, 1, n))
                               /\ \A j \in (n + 1)..Len(l) : l[j] \in {CR, NUL}

\* the number of "\n" bytes in a byte string
CountLF(b) == Cardinality({ i \in 1..Len(b) : b[i] = LF })

\* C32: what a session has done depends on the bytes it received and not on
\* the reads they came in: the buffer holds the bytes after the last line
\* taken, a session back at its read has taken every complete line, and the
\* queries and verdicts sent are those of the complete lines in order (here
\* no line ends in "\r" or NUL, so a query is its line).
C32_ChunkingDoesNotMatter ==
    \A c \in Conns :
        LET ls == CompleteLines(rx[c])
        IN  /\ \E n \in 0..Len(rx[c]) :
                   /\ n = 0 \/ rx[c][n] = LF
                   /\ CountLF(SubSeq(rx[c], 1, n)) = nproc[c]
                   /\ buf[c] = SubSeq(rx[c], n + 1, Len(rx[c]))
            /\ cst[c] \in {"top", "recv"} => nproc[c] = Len(ls)
            /\ endc[c] # "write_failed" =>
                   /\ Len(out[c]) = 2 * nproc[c]
                   /\ \A k \in 1..nproc[c] :
                          /\ out[c][2 * k - 1] = DebugLine(ls[k])
                          /\ out[c][2 * k] = IF ls[k] \in FullLines(file.data)
                                             THEN RESPONSE_EXISTS ELSE RESPONSE_NOT_FOUND

\* the line "a" came in two reads, "a" and then "\n", and was answered as
\* the line "a"
C32_Witness ==
    /\ rx[1] = <<ByteA, LF>>
    /\ nrecv = 2
    /\ out[1] = << DebugLine(<<ByteA>>), RESPONSE_EXISTS >>

\* C38: on every connection the engine was called, and two lines were
\* written, at most once for each "\n" received, and a session that has
\* ended stays ended: what is left in its buffer is never searched nor
\* answered.
C38_PartialLineNeverAnswered ==
    [][ \A c \in Conns :
          /\ nproc'[c] <= CountLF(rx'[c])
          /\ Len(out'[c]) <= 2 * CountLF(rx'[c])
          /\ cst[c] = "closed" =>
                 /\ cst'[c] = "closed"
                 /\ out'[c] = out[c]
                 /\ nproc'[c] = nproc[c]
                 /\ buf'[c] = buf[c] ]_vars

\* the server stopped a session that had answered one line and held the
\* partial line "a"
C38_Witness ==
    /\ cst[1] = "closed"
    /\ endc[1] = "stopped"
    /\ rx[1] = <<ByteA, LF, ByteA>>
    /\ buf[1] = <<ByteA>>
    /\ Len(out[1]) = 2
    /\ nproc[1] = 1

\* C39: when a call of stop() has returned and start() has returned, the
\* listening socket is closed.
C39_ListenerClosedAfterStopAndStart ==
    (nstop > 0 /\ srv.pos = "done") => srv.sock = "closed"

\* C40: after a stop() has returned the accept loop starts at most one more
\* thread, for a connection accept() had returned before, and accepts no
\* other; a session that has not reached its read when the stop flag is set
\* receives nothing, answers nothing and ends as stopped, its socket closed.
C40_AtMostOneAfterStop ==
    [][ /\ ndisp' <= 1
        /\ stop => \A c \in Conns : cst'[c] = "accepted" => cst[c] = "accepted"
        /\ \A c \in Conns :
              (stop /\ cst[c] \in {"accepted", "spawned", "handshake", "top"}) =>
                  /\ cst'[c] # "recv"
                  /\ rx'[c] = rx[c]
                  /\ out'[c] = out[c]
                  /\ nproc'[c] = nproc[c]
                  /\ (cst[c] = "top" /\ cst'[c] # "top") =>
                         cst'[c] = "closed" /\ endc'[c] = "stopped" ]_vars

\* the accept loop has ended after it started the thread of connection 1
\* when stop() had returned, and that session ended as stopped without
\* having received a byte
C40_Witness ==
    /\ ndisp = 1
    /\ srv.pos = "done"
    /\ cst[1] = "closed"
    /\ endc[1] = "stopped"
    /\ rx[1] = << >>
    /\ out[1] = << >>
    /\ \A d \in Conns \ {1} : cst[d] = "none"

\* C35: once stop() has been called, start() returns if it was called and
\* every session comes to its end with its socket closed.
C35_ShutdownCompletes ==
    (nstop > 0) ~> ( /\ srv.pos \in {"init", "done"}
                     /\ \A c \in Conns : cst[c] \in {"none", "closed"} )

=============================================================================
